---- MODULE Spec2Model ----
(***************************************************************************)
(* Property valuation back end: the quick-evaluation job orchestrator      *)
(* (document store, relational store and in-memory variants), the suburb   *)
(* sales cache (document store and two relational variants), the weight    *)
(* configurations, the provider chain with its statistics and the figures  *)
(* of the fallback report.                                                 *)
(***************************************************************************)
EXTENDS Naturals, Integers, Sequences, FiniteSets, TLC

(***************************************************************************)
(* Bounds of the model.                                                    *)
(***************************************************************************)
\* number of job identifiers submit can hand out
MaxJobs == 1
\* number of store operations (getJob, saveJob, deleteJob) that may fail
MaxFaults == 2
\* number of responses per job carrying a result or an error that are counted
MaxDeliveries == 2
\* largest number of priced comparables one provider call returns
MaxComps == 1

\* clock ticks in a week
TicksPerWeek == 2
\* the last tick of the clock
MaxClock == 6
\* number of cache read requests
MaxReads == 2
\* number of cache write requests
MaxWrites == 2

JobIds == 1..MaxJobs
Pollers == {"p1", "p2"}
\* the three orchestrator variants: evaluation.ts (document store),
\* part_009 (relational store), historicSalesWeights.ts:240-466 (in-memory map)
Variants == {"doc", "sql", "mem"}

VARIABLES
  variant,      \* which orchestrator variant is deployed
  store,        \* the job records: collection / table evaluation_jobs / quickEvalJobs map
  jobResults,   \* relational variant: the in-memory jobResults map
  job,          \* the job object held by runQuickEvaluation
  tpc,          \* position of each background task
  nextId,       \* number of job ids handed out so far
  lastSubmit,   \* the last response of POST /
  ppc,          \* position of each poll request
  preq,         \* job id each poll request names
  psnap,        \* what getJob returned to the poll request
  resp,         \* the last poll response sent
  delq,         \* deleteJob calls started and not yet executed by the store
  faults,       \* store failures still to come
  found,        \* comparablesData after the provider chain
  engine,       \* what the narrative engine did for the job ("none": not called)
  threw,        \* an error reached the top-level catch of runQuickEvaluation
  jobLog,       \* history: the values job.status has taken
  storeLog,     \* history: the values the stored status has taken
  delivered     \* history: number of poll responses that carried result or error

jobVars == <<variant, store, jobResults, job, tpc, nextId, lastSubmit, ppc, preq,
             psnap, resp, delq, faults, found, engine, threw, jobLog, storeLog,
             delivered>>

VARIABLES
  cvariant,     \* which cache variant is deployed
  clock,        \* the time, in ticks
  row,          \* the historic_sales_cache entry of the key
  props,        \* second relational variant: the historic_prop rows of the entry
  wpc,          \* position of each cache write request
  wlist,        \* the sales list of each write request
  wnow,         \* the now of each write request
  woverlap,     \* history: the write ran while another write was running
  wi,           \* second relational variant: index of the next sale to insert
  wresp,        \* the last response to each writer
  nwrites,      \* number of write requests made
  rpc,          \* position of the cache read request
  rreq,         \* what the read request has found so far
  rresp,        \* the last cache read response
  nreads,       \* number of read requests made
  settled       \* history: the last write that completed, if it ran alone

cacheVars == <<cvariant, clock, row, props, wpc, wlist, wnow, woverlap, wi, wresp,
               nwrites, rpc, rreq, rresp, nreads, settled>>

VARIABLES
  cfgVariant,   \* which weight-configuration variant is deployed
  collection,   \* the stored configurations: collection historic_sales_weights / the settings row
  nextUuid,     \* number of configuration ids handed out so far
  cfgResp,      \* the last weight-configuration response sent
  cfgBefore     \* history: the stored configurations before the last request

cfgVars == <<cfgVariant, collection, nextUuid, cfgResp, cfgBefore>>

VARIABLES
  chVariant,        \* which orchestrator variant runs the provider chain
  apiKeys,          \* which providers have their keys configured
  cpc,              \* position of runQuickEvaluation in the provider chain
  comparablesData,  \* the working set: comparable_sold, comparable_listings, statistics
  statsOver,        \* history: the prices the statistics of the working set were computed from
  tried             \* history: the adapters called, what each returned, the working set after

chainVars == <<chVariant, apiKeys, cpc, comparablesData, statsOver, tried>>

VARIABLES
  estVariant,    \* which variant writes the fallback report
  propertyData,  \* the property of the request: beds, baths, carpark, size, property_type
  range,         \* statistics.price_range of the comparables: median and avg, 0 for none
  estimate,      \* the figures of the last fallback report: market, conservative, premium
  previous       \* history: the figures of the fallback report before the last one

estVars == <<estVariant, propertyData, range, estimate, previous>>

VARIABLES
  kpc,           \* position of runQuickEvaluation among its provider requests
  inflight,      \* the provider requests awaiting their response
  silent,        \* the adapters whose provider never responds
  corelogicAVM,  \* the valuation the primary provider gave; NoAVM stands for null
  attachedAVM,   \* comparablesData.corelogic_avm; NoAVM when the property is not set
  scraped,       \* what the two scrapers have returned so far
  callLog,       \* history: the adapter calls and returns, in order
  caught         \* history: the adapters whose call raised to runQuickEvaluation

callVars == <<kpc, inflight, silent, corelogicAVM, attachedAVM, scraped, callLog, caught>>

VARIABLES
  hpc,     \* position of each client's weight-configuration request in its handler
  hreq,    \* the request of each client: its operation, id and new configuration
  hcount   \* number of concurrent-client requests begun

concVars == <<hpc, hreq, hcount>>

VARIABLES
  keyed,      \* the cache entries, by cache_key
  keyResp,    \* the last response of a keyed cache read
  nKeyWrites  \* number of keyed cache writes made

keyVars == <<keyed, keyResp, nKeyWrites>>

VARIABLES
  dist,     \* the distance of the comparable being scored, in metres
  bpc,      \* whether the distance term of its score has been computed
  applied   \* the distance bands whose adjustment was applied to the score

bandVars == <<dist, bpc, applied>>

extVars == <<cfgVars, chainVars, estVars, callVars, concVars, keyVars, bandVars>>

vars == <<jobVars, cacheVars, extVars>>

(***************************************************************************)
(* Job records.  result is the evaluation_report of the result payload     *)
(* ("none" when the record has no result), error the error message.        *)
(***************************************************************************)
Absent == [status |-> "absent", stage |-> "absent", result |-> "none", error |-> "none"]

\* the record POST / creates
NewJob == [status |-> "queued", stage |-> "queued", result |-> "none", error |-> "none"]

Terminal == {"completed", "failed"}

\* append v to a history unless it repeats the last value
Logged(log, v) == IF log # <<>> /\ log[Len(log)] = v THEN log ELSE Append(log, v)

\* getJob: the record as the variant reads it back; the relational variant
\* selects and maps job_id, status, stage, created_at and property_data only
getJob(v, rec) ==
  IF rec = Absent THEN Absent
  ELSE IF v = "sql" THEN [rec EXCEPT !.result = "none", !.error = "none"]
  ELSE rec

\* saveJob: what the store holds for the job after a successful save of object j.
\* Document store: updateOne $set of every field of the object, upsert.
\* Relational store: UPDATE (or INSERT) of status, stage and property_data only.
saveJob(v, old, j) ==
  IF v = "sql" THEN [status |-> j.status, stage |-> j.stage, result |-> "none", error |-> "none"]
  ELSE [status |-> j.status, stage |-> j.stage,
        result |-> IF j.result # "none" THEN j.result ELSE old.result,
        error  |-> IF j.error # "none" THEN j.error ELSE old.error]

(***************************************************************************)
(* The provider chain of runQuickEvaluation, on counts of priced           *)
(* comparables: comparablesData is [sold, listings, total] with total the  *)
(* statistics.total_found.  Every comparable an adapter returns is priced. *)
(***************************************************************************)
Min(a, b) == IF a < b THEN a ELSE b

\* the initial comparablesData
EmptyComparables == [sold |-> 0, listings |-> 0, total |-> 0]

\* searchComparableSales (primary) and getComparableProperties (secondary):
\* n priced sales, no listings
AdapterSold(n) == [sold |-> n, listings |-> 0, total |-> n]

\* scrapeComparableProperties: total_found counts every similar priced entry,
\* the two lists are cut to five
SliceLen == 5
scrapeComparableProperties(sl, ss) ==
  [sold |-> Min(ss, SliceLen), listings |-> Min(sl, SliceLen), total |-> sl + ss]

\* the merge of scraped data into a non-empty working set
MergeScraped(v, cd, sc) ==
  LET listings == Min(cd.listings + sc.listings, SliceLen)
      sold     == IF cd.sold < 3 THEN Min(cd.sold + sc.sold, SliceLen) ELSE cd.sold
  IN  IF v = "doc"
      THEN [sold |-> sold, listings |-> listings,
            total |-> IF sold + listings > 0 THEN sold + listings ELSE cd.total]
      ELSE [cd EXCEPT !.listings = listings]

\* hasCl, hasDom: the primary's two keys, the secondary's key are configured;
\* c, d: what the primary and the secondary return; sl, ss: the priced similar
\* listings and sold entries the two scrapers return
ProviderChain(v, hasCl, hasDom, c, d, sl, ss) ==
  LET afterCl  == IF hasCl /\ c > 0 THEN AdapterSold(c) ELSE EmptyComparables
      afterDom == IF afterCl.total = 0 /\ hasDom THEN AdapterSold(d) ELSE afterCl
      sc       == scrapeComparableProperties(sl, ss)
  IN  IF afterDom.total < 3
      THEN IF sc.total > 0
           THEN IF afterDom.total = 0 THEN sc ELSE MergeScraped(v, afterDom, sc)
           ELSE afterDom
      ELSE afterDom

\* every comparablesData the chain can end with, over the keys configured and
\* the adapters' answers
ChainResults(v) ==
  { ProviderChain(v, hasCl, hasDom, c, d, sl, ss) :
      hasCl \in BOOLEAN, hasDom \in BOOLEAN, c \in 0..MaxComps, d \in 0..MaxComps,
      sl \in 0..MaxComps, ss \in 0..MaxComps }

(***************************************************************************)
(* generateEvaluationWithAI: the report for an engine outcome.             *)
(*   "nokey"  no OPENAI_API_KEY     "error"  the call throws (down, quota) *)
(*   "empty"  the completion has no content      "ok"  a narrative came    *)
(***************************************************************************)
EngineOutcomes == {"nokey", "error", "empty", "ok"}

generateBasicReport == "basic"

\* an engine call whose failure is not caught: no report comes back
generateEvaluationWithAI_NoCatch(e) ==
  IF e = "nokey" THEN generateBasicReport
  ELSE IF e = "error" THEN ""
  ELSE IF e = "ok" THEN "ai" ELSE generateBasicReport

generateEvaluationWithAI(e) ==
  IF e = "nokey" THEN generateBasicReport
  ELSE IF e = "error" THEN generateBasicReport
  ELSE LET content == IF e = "ok" THEN "ai" ELSE ""
       IN  IF content # "" THEN content ELSE generateBasicReport

\* the in-memory variant always writes the placeholder report
generatePlaceholderReport == "placeholder"

NoResponse == [code |-> "none", id |-> 0, status |-> "none", stage |-> "none",
               result |-> "none", error |-> "none"]

(***************************************************************************)
(* Initial state: nothing submitted.                                       *)
(***************************************************************************)
JobEmpty ==
  /\ store = [j \in JobIds |-> Absent]
  /\ jobResults = [j \in JobIds |-> "none"]
  /\ job = [j \in JobIds |-> Absent]
  /\ tpc = [j \in JobIds |-> "none"]
  /\ nextId = 0
  /\ lastSubmit = [code |-> "none", id |-> 0]
  /\ ppc = [p \in Pollers |-> "idle"]
  /\ preq = [p \in Pollers |-> 1]
  /\ psnap = [p \in Pollers |-> Absent]
  /\ resp = NoResponse
  /\ delq = {}
  /\ faults = MaxFaults
  /\ found = [j \in JobIds |-> EmptyComparables]
  /\ engine = [j \in JobIds |-> "none"]
  /\ threw = [j \in JobIds |-> FALSE]
  /\ jobLog = [j \in JobIds |-> <<>>]
  /\ storeLog = [j \in JobIds |-> <<>>]
  /\ delivered = [j \in JobIds |-> 0]

JobInit == variant \in Variants /\ JobEmpty

(***************************************************************************)
(* Store operations.  Each may fail while faults remain; getJob, saveJob   *)
(* and deleteJob catch the failure, log it and carry on.                   *)
(***************************************************************************)
\* the outcomes of one store operation: TRUE it succeeded, FALSE it failed
StoreOutcomes == IF variant # "mem" /\ faults > 0 THEN {TRUE, FALSE} ELSE {TRUE}

Spend(ok) == faults' = IF ok THEN faults ELSE faults - 1

\* the store and its history after saveJob(obj) for job j with outcome ok
SaveEffect(j, obj, ok) ==
  IF ok
  THEN /\ store' = [store EXCEPT ![j] = saveJob(variant, store[j], obj)]
       /\ storeLog' = [storeLog EXCEPT ![j] = Logged(storeLog[j], obj.status)]
  ELSE UNCHANGED <<store, storeLog>>

(***************************************************************************)
(* POST /  (submit)                                                        *)
(***************************************************************************)
Locations == {"", "Bondi, NSW 2026"}

\* !propertyData.location: 400, nothing else happens
SubmitInvalid(loc) ==
  /\ loc = ""
  /\ lastSubmit' = [code |-> "invalid", id |-> 0]
  /\ UNCHANGED <<cacheVars, extVars, variant, store, jobResults, job, tpc, nextId, ppc, preq, psnap, resp,
                 delq, faults, found, engine, threw, jobLog, storeLog, delivered>>

\* document and relational variants: await saveJob(job), then the task is started
\* and runs up to its first await (getJob)
SubmitStored(loc) ==
  /\ variant # "mem"
  /\ loc # ""
  /\ nextId < MaxJobs
  /\ LET id == nextId + 1 IN
     \E ok \in StoreOutcomes :
       /\ SaveEffect(id, NewJob, ok)
       /\ Spend(ok)
       /\ nextId' = id
       /\ jobLog' = [jobLog EXCEPT ![id] = <<"queued">>]
       /\ tpc' = [tpc EXCEPT ![id] = "start"]
       /\ lastSubmit' = [code |-> "ok", id |-> id]
  /\ UNCHANGED <<cacheVars, extVars, variant, jobResults, job, ppc, preq, psnap, resp, delq, found, engine,
                 threw, delivered>>

\* in-memory variant: quickEvalJobs.set, then runQuickEvaluation runs in the same
\* turn up to its first await, so the entry is in_progress when the handler yields
SubmitMem(loc) ==
  /\ variant = "mem"
  /\ loc # ""
  /\ nextId < MaxJobs
  /\ LET id  == nextId + 1
         obj == [NewJob EXCEPT !.status = "in_progress", !.stage = "fetching_data"]
     IN /\ nextId' = id
        /\ store' = [store EXCEPT ![id] = obj]
        /\ job' = [job EXCEPT ![id] = obj]
        /\ jobLog' = [jobLog EXCEPT ![id] = <<"queued", "in_progress">>]
        /\ storeLog' = [storeLog EXCEPT ![id] = <<"queued", "in_progress">>]
        /\ tpc' = [tpc EXCEPT ![id] = "fetch"]
        /\ lastSubmit' = [code |-> "ok", id |-> id]
  /\ UNCHANGED <<cacheVars, extVars, variant, jobResults, ppc, preq, psnap, resp, delq, faults, found,
                 engine, threw, delivered>>

(***************************************************************************)
(* runQuickEvaluation, one action per await.                               *)
(***************************************************************************)
\* a catch that puts the job back in the queue instead
Failed_Requeue(obj) == [obj EXCEPT !.status = "queued", !.stage = "queued", !.error = "msg"]

\* a catch that sets the status and forgets the stage
Failed_StatusOnly(obj) == [obj EXCEPT !.status = "failed", !.error = "msg"]

\* the top-level catch: the job object becomes failed with the message
Failed(obj) == [obj EXCEPT !.status = "failed", !.stage = "failed", !.error = "msg"]

\* let job = await getJob(jobId); if (!job) return; then in_progress / fetching_data
TaskGetJob(j) ==
  /\ variant # "mem"
  /\ tpc[j] = "start"
  /\ \E ok \in StoreOutcomes :
       LET rec == IF ok THEN getJob(variant, store[j]) ELSE Absent IN
       /\ Spend(ok)
       /\ IF rec = Absent
          THEN /\ tpc' = [tpc EXCEPT ![j] = "done"]
               /\ UNCHANGED <<job, jobLog>>
          ELSE /\ job' = [job EXCEPT ![j] = [rec EXCEPT !.status = "in_progress",
                                                        !.stage = "fetching_data"]]
               /\ jobLog' = [jobLog EXCEPT ![j] = Logged(Logged(jobLog[j], rec.status), "in_progress")]
               /\ tpc' = [tpc EXCEPT ![j] = "save1"]
  /\ UNCHANGED <<cacheVars, extVars, variant, store, jobResults, nextId, lastSubmit, ppc, preq, psnap, resp,
                 delq, found, engine, threw, storeLog, delivered>>

\* where the task goes after each await saveJob(job)
AfterSave(pc) ==
  CASE pc = "save1" -> "fetch"
    [] pc = "save2" -> "gen"
    [] pc = "save3" -> "done"
    [] pc = "savefail" -> "done"

\* await saveJob(job)
TaskSave(j) ==
  /\ variant # "mem"
  /\ tpc[j] \in {"save1", "save2", "save3", "savefail"}
  /\ \E ok \in StoreOutcomes :
       /\ SaveEffect(j, job[j], ok)
       /\ Spend(ok)
  /\ tpc' = [tpc EXCEPT ![j] = AfterSave(tpc[j])]
  /\ UNCHANGED <<cacheVars, extVars, variant, jobResults, job, nextId, lastSubmit, ppc, preq, psnap, resp,
                 delq, found, engine, threw, jobLog, delivered>>

\* the in-memory variant mutates the map entry itself: the entry, while it is in
\* the map, is the job object
Alias(j, obj) ==
  IF variant = "mem" /\ store[j] # Absent
  THEN /\ store' = [store EXCEPT ![j] = obj]
       /\ storeLog' = [storeLog EXCEPT ![j] = Logged(storeLog[j], obj.status)]
  ELSE UNCHANGED <<store, storeLog>>

\* an error reaches the top-level catch
TaskThrow(j) ==
  /\ tpc[j] \in {"fetch", "gen"}
  /\ LET obj == Failed(job[j]) IN
     /\ job' = [job EXCEPT ![j] = obj]
     /\ jobLog' = [jobLog EXCEPT ![j] = Logged(jobLog[j], obj.status)]
     /\ Alias(j, obj)
  /\ threw' = [threw EXCEPT ![j] = TRUE]
  /\ tpc' = [tpc EXCEPT ![j] = IF variant = "mem" THEN "done" ELSE "savefail"]
  /\ UNCHANGED <<cacheVars, extVars, variant, jobResults, nextId, lastSubmit, ppc, preq, psnap, resp, delq,
                 faults, found, engine, delivered>>

\* the in-memory variant reports Math.floor(Math.random() * 10) + 5 comparables
MemFound == {5, 14}

\* getApiKeys and the three adapters (the two timers of the in-memory variant),
\* then job.stage = 'generating_evaluation'
TaskFetch(j) ==
  /\ tpc[j] = "fetch"
  /\ LET obj == [job[j] EXCEPT !.stage = "generating_evaluation"] IN
     /\ job' = [job EXCEPT ![j] = obj]
     /\ Alias(j, obj)
  /\ IF variant = "mem"
     THEN /\ tpc' = [tpc EXCEPT ![j] = "gen"]
          /\ UNCHANGED found
     ELSE /\ tpc' = [tpc EXCEPT ![j] = "save2"]
          /\ \E cd \in ChainResults(variant) : found' = [found EXCEPT ![j] = cd]
  /\ UNCHANGED <<cacheVars, extVars, variant, jobResults, nextId, lastSubmit, ppc, preq, psnap, resp, delq,
                 faults, engine, threw, jobLog, delivered>>

\* generateEvaluationWithAI, then status completed with the result payload
TaskGenerate(j) ==
  /\ tpc[j] = "gen"
  /\ \E e \in EngineOutcomes, n \in MemFound :
       LET report == IF variant = "mem" THEN generatePlaceholderReport
                     ELSE generateEvaluationWithAI(e)
           done   == [job[j] EXCEPT !.status = "completed", !.stage = "completed"]
           obj    == IF variant = "sql" THEN done ELSE [done EXCEPT !.result = report]
       IN /\ engine' = [engine EXCEPT ![j] = IF variant = "mem" THEN @ ELSE e]
          /\ found' = [found EXCEPT ![j] = IF variant = "mem" THEN [@ EXCEPT !.total = n] ELSE @]
          /\ job' = [job EXCEPT ![j] = obj]
          /\ jobLog' = [jobLog EXCEPT ![j] = Logged(jobLog[j], obj.status)]
          /\ jobResults' = IF variant = "sql" THEN [jobResults EXCEPT ![j] = report]
                           ELSE jobResults
          /\ Alias(j, obj)
  /\ tpc' = [tpc EXCEPT ![j] = IF variant = "mem" THEN "done" ELSE "save3"]
  /\ UNCHANGED <<cacheVars, extVars, variant, nextId, lastSubmit, ppc, preq, psnap, resp, delq, faults,
                 threw, delivered>>

(***************************************************************************)
(* GET /:jobId/status  (poll)                                              *)
(***************************************************************************)
NotFound(j) == [code |-> "notfound", id |-> j, status |-> "none", stage |-> "none",
                result |-> "none", error |-> "none"]

Count(n) == IF n < MaxDeliveries THEN n + 1 ELSE n

\* the history of payload deliveries after response r
Deliver(r) ==
  delivered' = IF r.code = "ok" /\ (r.result # "none" \/ r.error # "none")
               THEN [delivered EXCEPT ![r.id] = Count(@)]
               ELSE delivered

\* const job = await getJob(jobId)
PollGet(p, j) ==
  /\ variant # "mem"
  /\ ppc[p] = "idle"
  /\ \E ok \in StoreOutcomes :
       /\ psnap' = [psnap EXCEPT ![p] = IF ok THEN getJob(variant, store[j]) ELSE Absent]
       /\ Spend(ok)
  /\ preq' = [preq EXCEPT ![p] = j]
  /\ ppc' = [ppc EXCEPT ![p] = "respond"]
  /\ UNCHANGED <<cacheVars, extVars, variant, store, jobResults, job, tpc, nextId, lastSubmit, resp, delq,
                 found, engine, threw, jobLog, storeLog, delivered>>

\* the response the document variant builds from the record it read
PollResponseDoc(j, rec) ==
  [code |-> "ok", id |-> j, status |-> rec.status, stage |-> rec.stage,
   result |-> IF rec.status = "completed" /\ rec.result # "none" THEN rec.result ELSE "none",
   error  |-> IF rec.status = "failed" /\ rec.error # "none" THEN rec.error ELSE "none"]

\* the response the relational variant builds: the result comes from jobResults
PollResponseSql(j, rec, res) ==
  [code |-> "ok", id |-> j, status |-> rec.status, stage |-> rec.stage,
   result |-> IF rec.status = "completed" THEN res ELSE "none",
   error  |-> IF rec.status = "failed" /\ rec.error # "none" THEN rec.error ELSE "none"]

\* whether the handler calls deleteJob (not awaited) for the record it read
CallsDelete(v, rec) ==
  \/ rec.status = "completed" /\ (v = "sql" \/ rec.result # "none")
  \/ rec.status = "failed" /\ rec.error # "none"

\* the rest of the handler, after getJob returned
PollRespond(p) ==
  /\ variant # "mem"
  /\ ppc[p] = "respond"
  /\ LET j   == preq[p]
         rec == psnap[p]
         r   == IF rec = Absent THEN NotFound(j)
                ELSE IF variant = "sql" THEN PollResponseSql(j, rec, jobResults[j])
                ELSE PollResponseDoc(j, rec)
     IN /\ resp' = r
        /\ Deliver(r)
        /\ jobResults' = IF variant = "sql" /\ rec.status = "completed"
                         THEN [jobResults EXCEPT ![j] = "none"] ELSE jobResults
        /\ delq' = IF rec # Absent /\ CallsDelete(variant, rec) THEN delq \cup {j} ELSE delq
  /\ ppc' = [ppc EXCEPT ![p] = "idle"]
  /\ preq' = [preq EXCEPT ![p] = 1]
  /\ psnap' = [psnap EXCEPT ![p] = Absent]
  /\ UNCHANGED <<cacheVars, extVars, variant, store, job, tpc, nextId, lastSubmit, faults, found,
                 engine, threw, jobLog, storeLog>>

\* deleteJob reaches the store
DeleteExec(j) ==
  /\ j \in delq
  /\ \E ok \in StoreOutcomes :
       /\ store' = IF ok THEN [store EXCEPT ![j] = Absent] ELSE store
       /\ Spend(ok)
  /\ delq' = delq \ {j}
  /\ UNCHANGED <<cacheVars, extVars, variant, jobResults, job, tpc, nextId, lastSubmit, ppc, preq, psnap, resp,
                 found, engine, threw, jobLog, storeLog, delivered>>

\* in-memory variant: the whole handler runs in one turn and deletes nothing
PollMem(p, j) ==
  /\ variant = "mem"
  /\ LET rec == store[j]
         r   == IF rec = Absent THEN NotFound(j) ELSE PollResponseDoc(j, rec)
     IN /\ resp' = r
        /\ Deliver(r)
  /\ UNCHANGED <<cacheVars, extVars, variant, store, jobResults, job, tpc, nextId, lastSubmit, ppc, preq, psnap,
                 delq, faults, found, engine, threw, jobLog, storeLog>>

\* in-memory variant: the five-minute sweep drops entries older than ten minutes;
\* a task's two timers (1.5 s and 2 s) have fired long before
Reap(j) ==
  /\ variant = "mem"
  /\ store[j] # Absent
  /\ tpc[j] = "done"
  /\ store' = [store EXCEPT ![j] = Absent]
  /\ UNCHANGED <<cacheVars, extVars, variant, jobResults, job, tpc, nextId, lastSubmit, ppc, preq, psnap,
                 resp, delq, faults, found, engine, threw, jobLog, storeLog, delivered>>

(***************************************************************************)
(* The suburb sales cache.  One key; a sale is [id, cars, raw]: its id, its *)
(* number of car spaces and its sold_date_raw as a day number.             *)
(***************************************************************************)
\* historicSalesCache.ts, part_010:1-186, part_010:188-486
CacheVariants == {"doc", "relA", "relB"}

Writers == {"w1", "w2"}

CACHE_DURATION_DAYS(v) == IF v = "relB" THEN 14 ELSE 7

\* the time to live, in ticks
TTL(v) == (CACHE_DURATION_DAYS(v) * TicksPerWeek) \div 7

\* a cutoff that forgets to go back in time
CutoffDate_Now(now, v) == now

\* cutoffDate.setDate(cutoffDate.getDate() - CACHE_DURATION_DAYS), days of 24 hours
CutoffDate(now, v) == now - TTL(v)

\* cached_at >= cutoffDate
Valid(cachedAt, cutoff) == cachedAt >= cutoff

SaleA == [id |-> "a", cars |-> "2", raw |-> 2]
SaleB == [id |-> "b", cars |-> "0", raw |-> 1]

\* the sales lists a write request carries
SalesLists == { <<SaleA>>, <<SaleB>>, <<SaleB, SaleA>> }

NoRow == [cached_at |-> -1, sales |-> <<>>, total |-> 0]

NoWrite == [list |-> <<>>, at |-> -1]

\* x || null on a number
OrNull(x) == IF x = "0" THEN "null" ELSE x

\* the historic_prop row the second relational variant inserts for a sale
StoredProp(sale) == [id |-> sale.id, cars |-> OrNull(sale.cars), raw |-> sale.raw]

\* ORDER BY sold_date_raw DESC: every order of the rows that puts later sales
\* first; rows of the same date come in any order
OrderBySoldDateRawDesc(ps) ==
  LET n == Len(ps)
      perms == { f \in [1..n -> 1..n] : \A i \in 1..n : \A k \in 1..n : f[i] = f[k] => i = k }
  IN  { [i \in 1..n |-> ps[f[i]]] : f \in
          { g \in perms : \A i \in 1..n : \A k \in 1..n : i < k => ps[g[i]].raw >= ps[g[k]].raw } }

\* the sales column: JSON.stringify on write, JSON.parse on read
Stringify(list) == <<"json", list>>
Parse(text) == IF Len(text) = 2 /\ text[1] = "json" THEN text[2] ELSE <<>>

\* the entry a write of list at time now stores in historic_sales_cache
WrittenRow(v, list, now) ==
  [cached_at |-> now,
   sales     |-> IF v = "doc" THEN list ELSE IF v = "relA" THEN Stringify(list) ELSE <<>>,
   total     |-> IF v = "doc" THEN Len(list) ELSE 0]

\* the historic_prop rows the loop over the sales inserts
StoredProps(list) == [i \in 1..Len(list) |-> StoredProp(list[i])]

\* the sales lists a read of the entry can answer with
ReadSales(v, r, ps) ==
  IF v = "doc" THEN {r.sales}
  ELSE IF v = "relA" THEN {Parse(r.sales)}
  ELSE OrderBySoldDateRawDesc(ps)

NoRead == [code |-> "none", cached |-> FALSE, sales |-> <<>>, total |-> 0, cached_at |-> -1,
           exists |-> FALSE, age |-> 0, expect |-> NoWrite]

NoReq == [at |-> 0, cached_at |-> -1, expect |-> NoWrite]

\* no request is in progress
CacheIdle ==
  /\ clock = 0
  /\ wpc = [w \in Writers |-> "idle"]
  /\ wlist = [w \in Writers |-> <<>>]
  /\ wnow = [w \in Writers |-> 0]
  /\ woverlap = [w \in Writers |-> FALSE]
  /\ wi = [w \in Writers |-> 1]
  /\ wresp = [w \in Writers |-> "none"]
  /\ nwrites = 0
  /\ rpc = "idle"
  /\ rreq = NoReq
  /\ rresp = NoRead
  /\ nreads = 0

\* nothing has been written
CacheEmpty ==
  /\ row = NoRow
  /\ props = <<>>
  /\ settled = NoWrite
  /\ CacheIdle

\* the cache holds the entry an earlier write of list left at time 0
CacheHolds(list) ==
  /\ row = WrittenRow(cvariant, list, 0)
  /\ props = IF cvariant = "relB" THEN StoredProps(list) ELSE <<>>
  /\ settled = [list |-> list, at |-> 0]
  /\ CacheIdle

CacheInit ==
  /\ cvariant \in CacheVariants
  /\ CacheEmpty \/ CacheHolds(<<SaleA>>)

(***************************************************************************)
(* POST /api/historic-sales-cache  (cache write), one action per await     *)
(***************************************************************************)
Active(w) == wpc[w] \notin {"idle", "done"}

\* !suburb || !state || !sales: 400, nothing is written
CacheWriteInvalid(w) ==
  /\ ~Active(w)
  /\ nwrites < MaxWrites
  /\ nwrites' = nwrites + 1
  /\ wpc' = [wpc EXCEPT ![w] = "idle"]
  /\ wresp' = [wresp EXCEPT ![w] = "invalid"]
  /\ UNCHANGED <<jobVars, extVars, cvariant, clock, row, props, wlist, wnow, woverlap, wi,
                 rpc, rreq, rresp, nreads, settled>>

\* the handler up to its first store operation: cacheKey, now = new Date()
CacheWriteBegin(w, list) ==
  /\ ~Active(w)
  /\ nwrites < MaxWrites
  /\ nwrites' = nwrites + 1
  /\ wpc' = [wpc EXCEPT ![w] = IF cvariant = "doc" THEN "upsert" ELSE "select"]
  /\ wlist' = [wlist EXCEPT ![w] = list]
  /\ wnow' = [wnow EXCEPT ![w] = clock]
  /\ wi' = [wi EXCEPT ![w] = 1]
  /\ wresp' = [wresp EXCEPT ![w] = "none"]
  /\ woverlap' = [x \in Writers |->
                    IF x = w THEN \E o \in Writers \ {w} : Active(o)
                    ELSE IF Active(x) THEN TRUE ELSE woverlap[x]]
  /\ settled' = NoWrite
  /\ UNCHANGED <<jobVars, extVars, cvariant, clock, row, props, rpc, rreq, rresp, nreads>>

\* the response of the write: 200 with cached_at = now, or 500 from the catch
Finish(w, code) ==
  /\ wpc' = [wpc EXCEPT ![w] = "done"]
  /\ wresp' = [wresp EXCEPT ![w] = code]
  /\ settled' = IF code = "ok" /\ ~woverlap[w]
                THEN [list |-> wlist[w], at |-> wnow[w]] ELSE NoWrite

\* document store: updateOne({cache_key}, {$set: cacheEntry}, {upsert: true})
CacheWriteUpsert(w) ==
  /\ wpc[w] = "upsert"
  /\ row' = WrittenRow(cvariant, wlist[w], wnow[w])
  /\ Finish(w, "ok")
  /\ UNCHANGED <<jobVars, extVars, cvariant, clock, props, wlist, wnow, woverlap, wi, nwrites,
                 rpc, rreq, rresp, nreads>>

\* relational: SELECT ... WHERE cache_key = @cacheKey
CacheWriteSelect(w) ==
  /\ wpc[w] = "select"
  /\ wpc' = [wpc EXCEPT ![w] = IF row # NoRow THEN "update" ELSE "insert"]
  /\ UNCHANGED <<jobVars, extVars, cvariant, clock, row, props, wlist, wnow, woverlap, wi, wresp,
                 nwrites, rpc, rreq, rresp, nreads, settled>>

\* relational: UPDATE historic_sales_cache SET cached_at = ... (and sales = ...
\* in the first variant) WHERE cache_key = @cacheKey
CacheWriteUpdate(w) ==
  /\ wpc[w] = "update"
  /\ row' = IF row = NoRow THEN row ELSE WrittenRow(cvariant, wlist[w], wnow[w])
  /\ IF cvariant = "relA"
     THEN Finish(w, "ok")
     ELSE /\ wpc' = [wpc EXCEPT ![w] = "delete"]
          /\ UNCHANGED <<wresp, settled>>
  /\ UNCHANGED <<jobVars, extVars, cvariant, clock, props, wlist, wnow, woverlap, wi, nwrites,
                 rpc, rreq, rresp, nreads>>

\* relational: INSERT INTO historic_sales_cache; cache_key is unique, a second
\* row for the key is refused and the handler answers 500
CacheWriteInsert(w) ==
  /\ wpc[w] = "insert"
  /\ IF row # NoRow
     THEN /\ Finish(w, "error")
          /\ UNCHANGED row
     ELSE /\ row' = WrittenRow(cvariant, wlist[w], wnow[w])
          /\ IF cvariant = "relA"
             THEN Finish(w, "ok")
             ELSE /\ wpc' = [wpc EXCEPT ![w] = "props"]
                  /\ UNCHANGED <<wresp, settled>>
  /\ UNCHANGED <<jobVars, extVars, cvariant, clock, props, wlist, wnow, woverlap, wi, nwrites,
                 rpc, rreq, rresp, nreads>>

\* second relational variant: DELETE FROM historic_prop WHERE cache_id = @cacheId
CacheWriteDeleteProps(w) ==
  /\ wpc[w] = "delete"
  /\ props' = <<>>
  /\ wpc' = [wpc EXCEPT ![w] = "props"]
  /\ UNCHANGED <<jobVars, extVars, cvariant, clock, row, wlist, wnow, woverlap, wi, wresp, nwrites,
                 rpc, rreq, rresp, nreads, settled>>

\* second relational variant: one INSERT INTO historic_prop of the loop
CacheWriteInsertProp(w) ==
  /\ wpc[w] = "props"
  /\ props' = Append(props, StoredProp(wlist[w][wi[w]]))
  /\ IF wi[w] = Len(wlist[w])
     THEN /\ Finish(w, "ok")
          /\ UNCHANGED wi
     ELSE /\ wi' = [wi EXCEPT ![w] = @ + 1]
          /\ UNCHANGED <<wpc, wresp, settled>>
  /\ UNCHANGED <<jobVars, extVars, cvariant, clock, row, wlist, wnow, woverlap, nwrites,
                 rpc, rreq, rresp, nreads>>

(***************************************************************************)
(* GET /api/historic-sales-cache  (cache read)                             *)
(***************************************************************************)
\* !suburb || !state: 400
CacheReadInvalid ==
  /\ rpc = "idle"
  /\ nreads < MaxReads
  /\ nreads' = nreads + 1
  /\ rresp' = [NoRead EXCEPT !.code = "invalid"]
  /\ UNCHANGED <<jobVars, extVars, cvariant, clock, row, props, wpc, wlist, wnow, woverlap, wi,
                 wresp, nwrites, rpc, rreq, settled>>

\* the 200 response of a read started at time at; exists, age: whether the key
\* had an entry when the query ran, and how old it was
ReadResponse(cached, sales, total, cachedAt, at, exists, expect) ==
  [code |-> "ok", cached |-> cached, sales |-> sales, total |-> total,
   cached_at |-> IF cached THEN cachedAt ELSE -1, exists |-> exists,
   age |-> IF exists THEN at - cachedAt ELSE 0, expect |-> expect]

\* cutoffDate, then the query for an entry of the key with cached_at >= cutoffDate;
\* the document store and the first relational variant answer from the entry
CacheReadQuery ==
  /\ rpc = "idle"
  /\ nreads < MaxReads
  /\ LET cutoff == CutoffDate(clock, cvariant)
         hit    == row # NoRow /\ Valid(row.cached_at, cutoff)
     IN IF hit /\ cvariant = "relB"
        THEN /\ rpc' = "props"
             /\ rreq' = [at |-> clock, cached_at |-> row.cached_at, expect |-> settled]
             /\ UNCHANGED <<rresp, nreads>>
        ELSE /\ \E sales \in ReadSales(cvariant, row, props) :
                  rresp' = IF hit
                           THEN ReadResponse(TRUE, sales,
                                             IF cvariant = "doc" THEN row.total ELSE Len(sales),
                                             row.cached_at, clock, TRUE, settled)
                           ELSE ReadResponse(FALSE, <<>>, 0, row.cached_at, clock,
                                             row # NoRow, settled)
             /\ nreads' = nreads + 1
             /\ UNCHANGED <<rpc, rreq>>
  /\ UNCHANGED <<jobVars, extVars, cvariant, clock, row, props, wpc, wlist, wnow, woverlap, wi,
                 wresp, nwrites, settled>>

\* second relational variant: SELECT * FROM historic_prop WHERE cache_id = @cacheId
\* ORDER BY sold_date_raw DESC, then the response
CacheReadProps ==
  /\ rpc = "props"
  /\ \E sales \in ReadSales(cvariant, row, props) :
       rresp' = ReadResponse(TRUE, sales, Len(sales), rreq.cached_at, rreq.at, TRUE,
                             IF settled = rreq.expect THEN settled ELSE NoWrite)
  /\ rpc' = "idle"
  /\ rreq' = NoReq
  /\ nreads' = nreads + 1
  /\ UNCHANGED <<jobVars, extVars, cvariant, clock, row, props, wpc, wlist, wnow, woverlap, wi,
                 wresp, nwrites, settled>>

\* time passes; a request takes far less than a tick
Tick ==
  /\ \A w \in Writers : ~Active(w)
  /\ rpc = "idle"
  /\ row # NoRow
  /\ clock < MaxClock
  /\ clock - row.cached_at <= TTL(cvariant)
  /\ clock' = clock + 1
  /\ UNCHANGED <<jobVars, extVars, cvariant, row, props, wpc, wlist, wnow, woverlap, wi, wresp,
                 nwrites, rpc, rreq, rresp, nreads, settled>>

(***************************************************************************)
(* The cache keys.  A string is the sequence of its parts between hyphens  *)
(* with the hyphens: "st-kilda" is <<"st", "-", "kilda">>.  A request is   *)
(* [suburb, state, postcode, propertyType], <<>> for a parameter left out. *)
(* The sales of an entry are named by the request tuple that wrote them.   *)
(***************************************************************************)
\* number of keyed cache writes
MaxKeyWrites == 2

Suburbs == { <<"st">>, <<"St">>, <<"st", "-", "kilda">> }

States == { <<"vic">>, <<"VIC">>, <<"kilda", "-", "vic">> }

Postcodes == { <<>>, <<"3182">> }

PropertyTypes == { <<>>, <<"house">> }

KeyRequests == [suburb : Suburbs, state : States, postcode : Postcodes, propertyType : PropertyTypes]

\* String.prototype.toLowerCase
ToLowerCase(str) ==
  [i \in 1..Len(str) |->
     CASE str[i] = "St" -> "st" [] str[i] = "VIC" -> "vic" [] OTHER -> str[i]]

\* x || dflt on a string
OrDefault(x, dflt) == IF x = <<>> THEN dflt ELSE x

\* `${suburb.toLowerCase()}-${state.toLowerCase()}-${postcode || 'none'}-${propertyType || 'all'}`
CacheKey(q) ==
  ToLowerCase(q.suburb) \o <<"-">> \o ToLowerCase(q.state) \o <<"-">>
    \o OrDefault(q.postcode, <<"none">>) \o <<"-">> \o OrDefault(q.propertyType, <<"all">>)

\* String.prototype.split('-')
RECURSIVE SplitHyphen(_)
SplitHyphen(str) ==
  IF str = <<>> THEN << <<>> >>
  ELSE LET rest == SplitHyphen(Tail(str))
       IN  IF Head(str) = "-" THEN << <<>> >> \o rest
           ELSE << <<Head(str)>> \o Head(rest) >> \o Tail(rest)

\* the tuple of a request: lower-cased suburb and state, postcode or 'none',
\* property type or 'all'
KeyTuple(q) ==
  [suburb |-> ToLowerCase(q.suburb), state |-> ToLowerCase(q.state),
   postcode |-> OrDefault(q.postcode, <<"none">>),
   propertyType |-> OrDefault(q.propertyType, <<"all">>)]

NoTuple == [suburb |-> <<>>, state |-> <<>>, postcode |-> <<>>, propertyType |-> <<>>]

\* the entry a write stores: the relational variants have no suburb and no
\* state column
KeyEntry(v, q) ==
  [cache_key |-> CacheKey(q),
   suburb |-> IF v = "doc" THEN ToLowerCase(q.suburb) ELSE <<>>,
   state |-> IF v = "doc" THEN ToLowerCase(q.state) ELSE <<>>,
   sales |-> KeyTuple(q)]

NoKeyResp == [cached |-> FALSE, cache_key |-> <<>>, suburb |-> <<>>, state |-> <<>>,
              sales |-> NoTuple, asked |-> NoTuple]

\* the response to a read that found the entry: the relational variants take
\* suburb and state from the parts of the key
KeyHit(v, q, cached) ==
  LET parts == SplitHyphen(CacheKey(q))
  IN  [cached |-> TRUE, cache_key |-> CacheKey(q),
       suburb |-> IF v = "doc" THEN cached.suburb ELSE parts[1],
       state |-> IF v = "doc" THEN cached.state
                 ELSE IF Len(parts) >= 2 THEN parts[2] ELSE <<>>,
       sales |-> cached.sales, asked |-> KeyTuple(q)]

KeysIdle ==
  /\ keyed = {}
  /\ keyResp = NoKeyResp
  /\ nKeyWrites = 0

KeysUnchanged ==
  UNCHANGED <<jobVars, cacheVars, cfgVars, chainVars, estVars, callVars, concVars, bandVars>>

\* POST /api/historic-sales-cache: upsert of the entry by cache_key
KeyWrite(q) ==
  /\ nKeyWrites < MaxKeyWrites
  /\ nKeyWrites' = nKeyWrites + 1
  /\ keyed' = { e \in keyed : e.cache_key # CacheKey(q) } \cup { KeyEntry(cvariant, q) }
  /\ KeysUnchanged
  /\ UNCHANGED keyResp

\* GET /api/historic-sales-cache: the entry of the cache key, written just now
KeyRead(q) ==
  /\ keyResp' = IF \E e \in keyed : e.cache_key = CacheKey(q)
                THEN KeyHit(cvariant, q, CHOOSE e \in keyed : e.cache_key = CacheKey(q))
                ELSE [NoKeyResp EXCEPT !.cache_key = CacheKey(q), !.asked = KeyTuple(q)]
  /\ KeysUnchanged
  /\ UNCHANGED <<keyed, nKeyWrites>>

(***************************************************************************)
(* The weight configurations.  A configuration is [id, is_active, name];   *)
(* name stands for the weights and the other fields a request body sets.   *)
(* Requests are executed one after the other.                              *)
(***************************************************************************)
\* number of configuration ids uuidv4 hands out
MaxConfigs == 3

\* agents.ts:63-308 keeps a collection of configurations, historicSalesWeights.ts:1-238
\* keeps one configuration in the settings row 'historic_sales_weights'
CfgVariants == {"coll", "setting"}

CfgIds == 1..MaxConfigs

\* a request body: each field is given or absent
Bodies == [name : {"absent", "custom"}, is_active : {"absent", "true", "false"}]

DEFAULT_HISTORIC_SALES_WEIGHTS == [name |-> "default", is_active |-> TRUE]

NoConfig == [id |-> 0, is_active |-> FALSE, name |-> "none"]

NoCfgResp == [op |-> "none", id |-> 0, code |-> 0, ret |-> NoConfig]

\* { ...target, ...body } on the two fields
Spread(target, body) ==
  [target EXCEPT !.name = IF body.name = "absent" THEN @ ELSE body.name,
                 !.is_active = IF body.is_active = "absent" THEN @ ELSE body.is_active = "true"]

\* updateMany({ is_active: true, id: { $ne: id } }, { $set: { is_active: false } })
\* (id 0: no id is excepted)
Deactivate(configs, id) ==
  { IF c.is_active /\ c.id # id THEN [c EXCEPT !.is_active = FALSE] ELSE c : c \in configs }

\* updateOne({ id }, { $set: fields })
UpdateOne(configs, id, fields) ==
  { IF c.id = id THEN Spread(c, fields) ELSE c : c \in configs }

\* delete refuses the active configuration
DeleteRefused_Never(existing) == FALSE

DeleteRefused(existing) == existing.is_active

CfgIdle ==
  /\ collection = {}
  /\ nextUuid = 0
  /\ cfgResp = NoCfgResp
  /\ cfgBefore = {}

CfgRespond(op, id, code, ret) ==
  /\ cfgResp' = [op |-> op, id |-> id, code |-> code, ret |-> ret]
  /\ cfgBefore' = collection
  /\ UNCHANGED <<jobVars, cacheVars, chainVars, estVars, callVars, concVars, keyVars, bandVars,
                 cfgVariant>>

\* a new configuration replaces what the variant stores: the collection gains
\* a document after the active ones were deactivated, the settings row is
\* overwritten or inserted
StoreNew(config) ==
  /\ nextUuid' = nextUuid + 1
  /\ collection' = IF cfgVariant = "coll"
                   THEN Deactivate(collection, 0) \cup {config}
                   ELSE {config}

\* GET /
GetActive ==
  IF cfgVariant = "coll"
  THEN IF \E c \in collection : c.is_active
       THEN \E c \in collection :
              /\ c.is_active
              /\ CfgRespond("get", 0, 200, c)
              /\ UNCHANGED <<collection, nextUuid>>
       ELSE /\ nextUuid < MaxConfigs
            /\ LET defaultWeights == (DEFAULT_HISTORIC_SALES_WEIGHTS @@ [id |-> nextUuid + 1])
               IN  /\ collection' = collection \cup {defaultWeights}
                   /\ nextUuid' = nextUuid + 1
                   /\ CfgRespond("get", 0, 200, defaultWeights)
  ELSE IF collection # {}
       THEN \E c \in collection :
              /\ CfgRespond("get", 0, 200, c)
              /\ UNCHANGED <<collection, nextUuid>>
       ELSE /\ nextUuid < MaxConfigs
            /\ LET defaultWeights == (DEFAULT_HISTORIC_SALES_WEIGHTS @@ [id |-> nextUuid + 1])
               IN  /\ collection' = {defaultWeights}
                   /\ nextUuid' = nextUuid + 1
                   /\ CfgRespond("get", 0, 200, defaultWeights)

\* POST /
Create(body) ==
  /\ nextUuid < MaxConfigs
  /\ LET newWeights == [Spread((DEFAULT_HISTORIC_SALES_WEIGHTS @@ [id |-> nextUuid + 1]), body)
                          EXCEPT !.is_active = TRUE]
     IN  /\ StoreNew(newWeights)
         /\ CfgRespond("create", 0, 201, newWeights)

\* PUT /:id
Update(id, body) ==
  IF ~ \E c \in collection : c.id = id
  THEN /\ CfgRespond("update", id, 404, NoConfig)
       /\ UNCHANGED <<collection, nextUuid>>
  ELSE LET existing == CHOOSE c \in collection : c.id = id
           updates == Spread(existing, body)
           others == IF cfgVariant = "coll" /\ body.is_active = "true"
                     THEN Deactivate(collection, id)
                     ELSE collection
       IN  /\ collection' = UpdateOne(others, id, body)
           /\ CfgRespond("update", id, 200, updates)
           /\ UNCHANGED nextUuid

\* POST /:id/activate
Activate(id) ==
  IF cfgVariant = "coll"
  THEN IF ~ \E c \in collection : c.id = id
       THEN /\ CfgRespond("activate", id, 404, NoConfig)
            /\ UNCHANGED <<collection, nextUuid>>
       ELSE LET activated == UpdateOne(Deactivate(collection, 0), id,
                                       [name |-> "absent", is_active |-> "true"])
            IN  /\ collection' = activated
                /\ CfgRespond("activate", id, 200, CHOOSE c \in activated : c.id = id)
                /\ UNCHANGED nextUuid
  ELSE /\ IF collection = {}
          THEN CfgRespond("activate", id, 404, NoConfig)
          ELSE \E c \in collection : CfgRespond("activate", id, 200, c)
       /\ UNCHANGED <<collection, nextUuid>>

\* DELETE /:id
Delete(id) ==
  IF cfgVariant = "coll"
  THEN IF ~ \E c \in collection : c.id = id
       THEN /\ CfgRespond("delete", id, 404, NoConfig)
            /\ UNCHANGED <<collection, nextUuid>>
       ELSE LET existing == CHOOSE c \in collection : c.id = id
            IN  IF DeleteRefused(existing)
                THEN /\ CfgRespond("delete", id, 400, NoConfig)
                     /\ UNCHANGED <<collection, nextUuid>>
                ELSE /\ collection' = collection \ {existing}
                     /\ CfgRespond("delete", id, 200, NoConfig)
                     /\ UNCHANGED nextUuid
  ELSE /\ CfgRespond("delete", id, 400, NoConfig)
       /\ UNCHANGED <<collection, nextUuid>>

\* POST /reset
Reset ==
  /\ nextUuid < MaxConfigs
  /\ LET defaultWeights == [(DEFAULT_HISTORIC_SALES_WEIGHTS @@ [id |-> nextUuid + 1])
                              EXCEPT !.name = "default_reset"]
     IN  /\ StoreNew(defaultWeights)
         /\ CfgRespond("reset", 0, 200, defaultWeights)

(***************************************************************************)
(* The weight configurations of the collection variant under concurrent    *)
(* requests: one action per await of a handler.  Each client sends one     *)
(* request at a time.                                                      *)
(***************************************************************************)
\* number of requests the clients send
MaxRequests == 3

Clients == {"c1", "c2"}

\* the requests of the collection variant that leave is_active to the handler
ConcOps == {"get", "create", "activate", "delete", "reset"}

NoCfgReq == [op |-> "none", id |-> 0, config |-> NoConfig]

ConcIdle ==
  /\ hpc = [c \in Clients |-> "idle"]
  /\ hreq = [c \in Clients |-> NoCfgReq]
  /\ hcount = 0

ConcUnchanged ==
  UNCHANGED <<jobVars, cacheVars, chainVars, estVars, callVars, keyVars, bandVars, cfgVariant,
              cfgResp, cfgBefore>>

\* the handler runs up to its first await: POST / and POST /reset have built
\* the new configuration with its uuid by then
ConcBegin(c, op, id, body) ==
  /\ hpc[c] = "idle"
  /\ hcount < MaxRequests
  /\ hcount' = hcount + 1
  /\ op \notin {"activate", "delete"} => id = 1
  /\ op # "create" => body = [name |-> "absent", is_active |-> "absent"]
  /\ ConcUnchanged
  /\ UNCHANGED collection
  /\ IF op \in {"create", "reset"}
     THEN /\ nextUuid < MaxConfigs
          /\ nextUuid' = nextUuid + 1
          /\ LET fresh == (DEFAULT_HISTORIC_SALES_WEIGHTS @@ [id |-> nextUuid + 1])
                 config == IF op = "create"
                           THEN [Spread(fresh, body) EXCEPT !.is_active = TRUE]
                           ELSE [fresh EXCEPT !.name = "default_reset"]
             IN  hreq' = [hreq EXCEPT ![c] = [op |-> op, id |-> nextUuid + 1, config |-> config]]
          /\ hpc' = [hpc EXCEPT ![c] = "deactivate"]
     ELSE /\ UNCHANGED nextUuid
          /\ hreq' = [hreq EXCEPT ![c] = [op |-> op, id |-> IF op = "get" THEN 0 ELSE id,
                                          config |-> NoConfig]]
          /\ hpc' = [hpc EXCEPT ![c] = IF op = "get" THEN "find_active" ELSE "find"]

\* GET /: let weights = await collection.findOne({ is_active: true })
ConcFindActive(c) ==
  /\ hpc[c] = "find_active"
  /\ ConcUnchanged
  /\ UNCHANGED <<collection, hcount>>
  /\ IF \E w \in collection : w.is_active
     THEN /\ hpc' = [hpc EXCEPT ![c] = "idle"]
          /\ UNCHANGED <<hreq, nextUuid>>
     ELSE /\ nextUuid < MaxConfigs
          /\ nextUuid' = nextUuid + 1
          /\ hreq' = [hreq EXCEPT ![c].id = nextUuid + 1,
                                  ![c].config = (DEFAULT_HISTORIC_SALES_WEIGHTS @@ [id |-> nextUuid + 1])]
          /\ hpc' = [hpc EXCEPT ![c] = "insert"]

\* activate and delete: const existing = await collection.findOne({ id })
ConcFind(c) ==
  /\ hpc[c] = "find"
  /\ ConcUnchanged
  /\ UNCHANGED <<collection, nextUuid, hreq, hcount>>
  /\ IF ~ \E w \in collection : w.id = hreq[c].id
     THEN hpc' = [hpc EXCEPT ![c] = "idle"]
     ELSE LET existing == CHOOSE w \in collection : w.id = hreq[c].id
          IN  IF hreq[c].op = "activate"
              THEN hpc' = [hpc EXCEPT ![c] = "deactivate"]
              ELSE IF DeleteRefused(existing)
                   THEN hpc' = [hpc EXCEPT ![c] = "idle"]
                   ELSE hpc' = [hpc EXCEPT ![c] = "delete_one"]

\* await collection.updateMany({ is_active: true }, { $set: { is_active: false } })
ConcDeactivate(c) ==
  /\ hpc[c] = "deactivate"
  /\ ConcUnchanged
  /\ collection' = Deactivate(collection, 0)
  /\ hpc' = [hpc EXCEPT ![c] = IF hreq[c].op = "activate" THEN "update" ELSE "insert"]
  /\ UNCHANGED <<nextUuid, hreq, hcount>>

\* await collection.insertOne(...)
ConcInsert(c) ==
  /\ hpc[c] = "insert"
  /\ ConcUnchanged
  /\ collection' = collection \cup {hreq[c].config}
  /\ hpc' = [hpc EXCEPT ![c] = "idle"]
  /\ UNCHANGED <<nextUuid, hreq, hcount>>

\* await collection.updateOne({ id }, { $set: { is_active: true } })
ConcActivate(c) ==
  /\ hpc[c] = "update"
  /\ ConcUnchanged
  /\ collection' = UpdateOne(collection, hreq[c].id, [name |-> "absent", is_active |-> "true"])
  /\ hpc' = [hpc EXCEPT ![c] = "read"]
  /\ UNCHANGED <<nextUuid, hreq, hcount>>

\* const activated = await collection.findOne({ id }); res.json(activated)
ConcReadBack(c) ==
  /\ hpc[c] = "read"
  /\ ConcUnchanged
  /\ hpc' = [hpc EXCEPT ![c] = "idle"]
  /\ UNCHANGED <<collection, nextUuid, hreq, hcount>>

\* await collection.deleteOne({ id })
ConcDeleteOne(c) ==
  /\ hpc[c] = "delete_one"
  /\ ConcUnchanged
  /\ collection' = { w \in collection : w.id # hreq[c].id }
  /\ hpc' = [hpc EXCEPT ![c] = "idle"]
  /\ UNCHANGED <<nextUuid, hreq, hcount>>

(***************************************************************************)
(* The provider chain of runQuickEvaluation on prices.  A comparable is    *)
(* [by, n, price, address]: the adapter it came from, its position in what *)
(* that adapter found, its price (0 for a comparable without a price) and  *)
(* its address.                                                            *)
(***************************************************************************)
\* longest list of sales the primary adapter is given
MaxList == 4

Prices == {100, 200, 300, 400}

\* the variants that run the chain: evaluation.ts and part_009
ChainVariants == {"doc", "sql"}

\* what the primary provider's search answers (data.sales, by price)
PrimarySales == UNION { [1..n -> Prices] : n \in 0..MaxList } \cup { <<0, 200>> }

\* what searchSoldProperties of the secondary provider returns: priced only
SecondarySold == { <<>>, <<200>>, <<400, 100>>, <<300, 100, 200, 400>> }

\* the similar listings the listings scraper finds: every entry has a price
ScrapedListings == { <<>>, <<150>>, <<150, 150>>, <<150, 250, 350, 450, 550, 650>> }

\* what the sold scraper finds: the prices, and whether the entries come from
\* the page's JSON-LD blocks or from the fallback parse of its text
Sold(jsonLd, prices) == [jsonLd |-> jsonLd, prices |-> prices]

NoSold == Sold(TRUE, <<>>)

ScrapedSold == { NoSold, Sold(TRUE, <<250>>), Sold(FALSE, <<250, 250, 350>>) }

\* the address of entry i of what an adapter found: the entries of a
\* provider's answer have each their own, the entries of the sold scraper's
\* fallback parse all have `Property in ${suburb}`
Address(by, i) == IF by = "soldpage" THEN <<"Property in suburb", 0>> ELSE <<by, i>>

Comparables(by, prices) ==
  [i \in 1..Len(prices) |->
     [by |-> by, n |-> i, price |-> prices[i], address |-> Address(by, i)]]

\* the sold scraper's entries
ScrapedSoldEntries(sold) == Comparables(IF sold.jsonLd THEN "sold" ELSE "soldpage", sold.prices)

\* .filter(p => p.price)
Priced(list) == SelectSeq(list, LAMBDA p : p.price # 0)

\* .map(p => p.price)
PricesOf(list) == [i \in 1..Len(list) |-> list[i].price]

\* .slice(0, k)
Slice(list, k) == SubSeq(list, 1, Min(Len(list), k))

\* sorting left out
SortAsc_Unsorted(prices) == prices

RECURSIVE Insert(_, _)
Insert(x, sorted) ==
  IF sorted = <<>> THEN <<x>>
  ELSE IF x <= Head(sorted) THEN <<x>> \o sorted
  ELSE <<Head(sorted)>> \o Insert(x, Tail(sorted))

\* [...prices].sort((a, b) => a - b)
RECURSIVE SortAsc(_)
SortAsc(prices) ==
  IF prices = <<>> THEN <<>> ELSE Insert(Head(prices), SortAsc(Tail(prices)))

\* prices.reduce((a, b) => a + b, 0)
RECURSIVE Sum(_)
Sum(prices) == IF prices = <<>> THEN 0 ELSE Head(prices) + Sum(Tail(prices))

\* Math.round(sum / n) of non-negative integers: halves round up
RoundDiv(sum, n) == (2 * sum + n) \div (2 * n)

\* the lower of the two middle elements
Median_LowerMiddle(prices) == SortAsc(prices)[((Len(prices) - 1) \div 2) + 1]

\* sortedPrices[Math.floor(sortedPrices.length / 2)]
Median(prices) == SortAsc(prices)[(Len(prices) \div 2) + 1]

\* price_range; 0 stands for null
PriceRange(prices) ==
  IF prices = <<>>
  THEN [min |-> 0, max |-> 0, avg |-> 0, median |-> 0]
  ELSE [min |-> SortAsc(prices)[1],
        max |-> SortAsc(prices)[Len(prices)],
        avg |-> RoundDiv(Sum(prices), Len(prices)),
        median |-> Median(prices)]

Statistics(total, prices) == [total_found |-> total, price_range |-> PriceRange(prices)]

PageSize == 10

\* primary adapter: the first ten sales that have a price
searchComparableSales(sales) ==
  LET properties == Priced(Comparables("primary", Slice(sales, PageSize)))
  IN  [comparable_sold |-> properties, comparable_listings |-> <<>>,
       statistics |-> Statistics(Len(properties), PricesOf(properties))]

\* secondary adapter
getComparableProperties(sold) ==
  LET soldProperties == Comparables("secondary", sold)
  IN  [comparable_sold |-> soldProperties, comparable_listings |-> <<>>,
       statistics |-> Statistics(Len(soldProperties), PricesOf(Priced(soldProperties)))]

\* allPrices of the tertiary adapter
ScrapedPrices(listings, sold) ==
  PricesOf(Priced(Comparables("listing", listings) \o ScrapedSoldEntries(sold)))

\* tertiary adapter: statistics over every similar entry with a price, the
\* two lists cut to five
scrapeComparablesData(listings, sold) ==
  LET similarListings == Comparables("listing", listings)
      similarSold == ScrapedSoldEntries(sold)
      allPrices == ScrapedPrices(listings, sold)
  IN  [comparable_sold |-> Slice(similarSold, SliceLen),
       comparable_listings |-> Slice(similarListings, SliceLen),
       statistics |-> Statistics(Len(allPrices), allPrices)]

\* the prices the merge step computes the statistics from
MergedPrices(cd) == PricesOf(Priced(cd.comparable_sold)) \o PricesOf(Priced(cd.comparable_listings))

\* the merge of scraped data into a working set that is not empty
MergeScrapedData(v, cd, scrapedData) ==
  LET listings == Slice(cd.comparable_listings \o scrapedData.comparable_listings, SliceLen)
      sold == IF v = "doc" /\ Len(cd.comparable_sold) < 3
              THEN Slice(cd.comparable_sold \o scrapedData.comparable_sold, SliceLen)
              ELSE cd.comparable_sold
      merged == [cd EXCEPT !.comparable_listings = listings, !.comparable_sold = sold]
      allPrices == MergedPrices(merged)
  IN  IF v = "doc" /\ allPrices # <<>>
      THEN [merged EXCEPT !.statistics = Statistics(Len(allPrices), allPrices)]
      ELSE merged

NoData == [comparable_sold |-> <<>>, comparable_listings |-> <<>>,
           statistics |-> Statistics(0, <<>>)]

NumPriced(cd) == Len(MergedPrices(cd))

Tried(adapter, over, returned, after) ==
  tried' = Append(tried, [adapter |-> adapter, over |-> over, returned |-> returned, after |-> after])

ChainIdle ==
  /\ chVariant = "doc"
  /\ apiKeys = [corelogic |-> FALSE, domain |-> FALSE]
  /\ cpc = "idle"
  /\ comparablesData = NoData
  /\ statsOver = <<>>
  /\ tried = <<>>

ChainUnchanged ==
  UNCHANGED <<jobVars, cacheVars, cfgVars, estVars, callVars, concVars, keyVars, bandVars,
              chVariant, apiKeys>>

\* the primary provider, when both its keys are configured
ChainPrimary(sales) ==
  /\ cpc = "primary"
  /\ cpc' = "secondary"
  /\ ChainUnchanged
  /\ IF apiKeys.corelogic
     THEN LET corelogicComps == searchComparableSales(sales)
              adopted == corelogicComps.statistics.total_found > 0
          IN  /\ comparablesData' = IF adopted THEN corelogicComps ELSE comparablesData
              /\ statsOver' = IF adopted THEN PricesOf(corelogicComps.comparable_sold) ELSE statsOver
              /\ Tried("primary", PricesOf(corelogicComps.comparable_sold), corelogicComps, comparablesData')
     ELSE /\ sales = <<>>
          /\ UNCHANGED <<comparablesData, statsOver, tried>>

\* the secondary provider, when the working set is empty and its key is configured
ChainSecondary(sold) ==
  /\ cpc = "secondary"
  /\ cpc' = "scrape"
  /\ ChainUnchanged
  /\ IF comparablesData.statistics.total_found = 0 /\ apiKeys.domain
     THEN /\ comparablesData' = getComparableProperties(sold)
          /\ statsOver' = PricesOf(Priced(comparablesData'.comparable_sold))
          /\ Tried("secondary", statsOver', comparablesData', comparablesData')
     ELSE /\ sold = <<>>
          /\ UNCHANGED <<comparablesData, statsOver, tried>>

\* the scrapers, when the working set has fewer than three
ChainScrape(listings, sold) ==
  /\ cpc = "scrape"
  /\ cpc' = "done"
  /\ ChainUnchanged
  /\ IF comparablesData.statistics.total_found < 3
     THEN LET scrapedData == scrapeComparablesData(listings, sold)
          IN  /\ comparablesData' =
                   IF scrapedData.statistics.total_found > 0
                   THEN IF comparablesData.statistics.total_found = 0
                        THEN scrapedData
                        ELSE MergeScrapedData(chVariant, comparablesData, scrapedData)
                   ELSE comparablesData
              /\ statsOver' =
                   IF scrapedData.statistics.total_found > 0
                   THEN IF comparablesData.statistics.total_found = 0
                        THEN ScrapedPrices(listings, sold)
                        ELSE IF chVariant = "doc" /\ MergedPrices(comparablesData') # <<>>
                             THEN MergedPrices(comparablesData')
                             ELSE statsOver
                   ELSE statsOver
              /\ Tried("scraper", ScrapedPrices(listings, sold), scrapedData, comparablesData')
     ELSE /\ listings = <<>> /\ sold = NoSold
          /\ UNCHANGED <<comparablesData, statsOver, tried>>

(***************************************************************************)
(* The provider requests of runQuickEvaluation, one action per await.  A   *)
(* request is [adapter, call, timer]: the adapter that sent it, what it    *)
(* asks for and whether the adapter armed a timer that aborts it.          *)
(***************************************************************************)
Adapters == {"primary", "secondary", "scraper"}

\* how a request ends: a 2xx response whose body parses, a network error, a
\* response that is not 2xx, a 2xx response whose body does not parse, an
\* abort by the request's timer
Outcomes == {"ok", "error", "status", "malformed", "abort"}

NoAVM == [valuation |-> 0]

\* the valuations the primary provider answers with
Valuations == { [valuation |-> 700] }

\* what the providers answer to the searches
SalesFound == { <<>>, <<200>>, <<100, 300, 200>> }

SoldFound == { <<>>, <<200>>, <<300, 100, 200>> }

ListingsScraped == { <<>>, <<150>> }

SoldScraped == { NoSold, Sold(TRUE, <<250>>) }

Request(adapter, call, timer) == [adapter |-> adapter, call |-> call, timer |-> timer]

\* fetch(`${CORELOGIC_API_BASE}/oauth/token`, ...)
TokenRequest == Request("primary", "token", FALSE)

\* fetch(`${CORELOGIC_API_BASE}/api/v1/property/avm`, ...)
AvmRequest == Request("primary", "avm", FALSE)

\* fetch(`${CORELOGIC_API_BASE}/api/v1/sales/search`, ...)
SearchRequest == Request("primary", "search", FALSE)

\* setTimeout(() => controller.abort(), 20000); fetch(url, { signal: controller.signal })
SoldRequest == Request("secondary", "search", TRUE)

\* fetch(url, { headers }) of scrapeRealestateListings and of scrapeRealestateSold
ListingsRequest == Request("scraper", "listings", FALSE)

ScrapedSoldRequest == Request("scraper", "sold", FALSE)

\* the request ends with outcome o: a timer aborts it, or the provider answers
Arrives(req, o) ==
  /\ req \in inflight
  /\ IF o = "abort" THEN req.timer ELSE req.adapter \notin silent

\* an adapter without its catch block
AdapterResult_NoCatch(o) ==
  IF o = "ok" THEN "data" ELSE IF o = "status" THEN "empty" ELSE "throw"

\* try { ... if (response.ok) { data } else { empty } } catch { empty }
AdapterResult(o) == IF o = "ok" THEN "data" ELSE "empty"

\* the scrapers run whatever the working set holds
NeedsScraping_Always(cd) == TRUE

\* if (comparablesData.statistics.total_found < 3)
NeedsScraping(cd) == cd.statistics.total_found < 3

\* where runQuickEvaluation goes after the secondary adapter's block
AfterSecondary(cd) == IF NeedsScraping(cd) THEN "scrape" ELSE "done"

\* if (comparablesData.statistics.total_found === 0 && apiKeys.domain_api_key)
AfterPrimary(cd) ==
  IF cd.statistics.total_found = 0 /\ apiKeys.domain THEN "secondary" ELSE AfterSecondary(cd)

\* the requests sent on reaching a position
Requests(pos) ==
  CASE pos \in {"avm_token", "search_token"} -> {TokenRequest}
    [] pos = "avm" -> {AvmRequest}
    [] pos = "search" -> {SearchRequest}
    [] pos = "secondary" -> {SoldRequest}
    [] pos = "scrape" -> {ListingsRequest, ScrapedSoldRequest}
    [] OTHER -> {}

Event(ev, adapter, priced, failed, returned, avm) ==
  [ev |-> ev, adapter |-> adapter, priced |-> priced, failed |-> failed,
   returned |-> returned, avm |-> avm]

\* an adapter is called while the working set is cd
Call(adapter, cd) == Event("call", adapter, NumPriced(cd), {}, NoData, NoAVM)

\* an adapter returns after the requests in failed did not end with data
Return(adapter, failed, returned, avm) == Event("return", adapter, 0, failed, returned, avm)

\* the adapter calls made on reaching a position
Calls(pos, cd) ==
  CASE pos \in {"avm_token", "search_token"} -> <<Call("primary", cd)>>
    [] pos = "secondary" -> <<Call("secondary", cd)>>
    [] pos = "scrape" -> <<Call("scraper", cd)>>
    [] OTHER -> <<>>

Goto(pos, cd, returns) ==
  /\ kpc' = pos
  /\ inflight' = Requests(pos)
  /\ callLog' = callLog \o returns \o Calls(pos, cd)

NoScraped == [listings |-> <<>>, sold |-> NoSold, failed |-> {}]

CallsIdle ==
  /\ kpc = "idle"
  /\ inflight = {}
  /\ silent = {}
  /\ corelogicAVM = NoAVM
  /\ attachedAVM = NoAVM
  /\ scraped = NoScraped
  /\ callLog = <<>>
  /\ caught = {}

CallsUnchanged ==
  UNCHANGED <<jobVars, cacheVars, cfgVars, estVars, concVars, keyVars, bandVars, chVariant,
              apiKeys, cpc, statsOver, tried, silent>>

\* if (apiKeys.corelogic_client_key && apiKeys.corelogic_secret_key)
CallsStart ==
  /\ kpc = "start"
  /\ CallsUnchanged
  /\ UNCHANGED <<comparablesData, corelogicAVM, attachedAVM, scraped, caught>>
  /\ Goto(IF apiKeys.corelogic THEN "avm_token" ELSE AfterPrimary(comparablesData),
          comparablesData, <<>>)

\* catch (e) { console.error(...) } of the block that calls the adapter
Raised(adapter, after) ==
  /\ caught' = caught \cup {adapter}
  /\ UNCHANGED <<comparablesData, corelogicAVM, attachedAVM, scraped>>
  /\ Goto(after, comparablesData, <<>>)

\* if (corelogicComps.statistics.total_found > 0) { comparablesData = corelogicComps; ... }
Adopt(corelogicComps, failed) ==
  LET adopted == corelogicComps.statistics.total_found > 0
  IN  /\ comparablesData' = IF adopted THEN corelogicComps ELSE comparablesData
      /\ attachedAVM' = IF adopted THEN corelogicAVM ELSE attachedAVM
      /\ Goto(AfterPrimary(comparablesData'), comparablesData',
              <<Return("primary", failed, corelogicComps, NoAVM)>>)

\* getOAuthToken, called by getPropertyAVM and by searchComparableSales
TokenResponse(o) ==
  /\ kpc \in {"avm_token", "search_token"}
  /\ Arrives(TokenRequest, o)
  /\ CallsUnchanged
  /\ LET accessToken == AdapterResult(o)
     IN  IF accessToken = "throw"
         THEN Raised("primary", AfterPrimary(comparablesData))
         ELSE /\ UNCHANGED <<corelogicAVM, scraped, caught>>
              /\ IF accessToken = "data"
                 THEN /\ UNCHANGED <<comparablesData, attachedAVM>>
                      /\ Goto(IF kpc = "avm_token" THEN "avm" ELSE "search", comparablesData, <<>>)
                 ELSE IF kpc = "avm_token"
                      THEN /\ UNCHANGED <<comparablesData, attachedAVM>>
                           /\ Goto("search_token", comparablesData,
                                   <<Return("primary", {"token"}, NoData, NoAVM)>>)
                      ELSE Adopt(NoData, {"token"})

\* getPropertyAVM after the token
AvmResponse(o, avm) ==
  /\ kpc = "avm"
  /\ Arrives(AvmRequest, o)
  /\ CallsUnchanged
  /\ LET r == AdapterResult(o)
     IN  IF r = "throw"
         THEN Raised("primary", AfterPrimary(comparablesData))
         ELSE /\ corelogicAVM' = IF r = "data" THEN avm ELSE NoAVM
              /\ UNCHANGED <<comparablesData, attachedAVM, scraped, caught>>
              /\ Goto("search_token", comparablesData,
                      <<Return("primary", IF r = "data" THEN {} ELSE {"avm"}, NoData,
                               corelogicAVM')>>)

\* searchComparableSales after the token
SearchResponse(o, sales) ==
  /\ kpc = "search"
  /\ Arrives(SearchRequest, o)
  /\ CallsUnchanged
  /\ LET r == AdapterResult(o)
     IN  IF r = "throw"
         THEN Raised("primary", AfterPrimary(comparablesData))
         ELSE /\ UNCHANGED <<corelogicAVM, scraped, caught>>
              /\ IF r = "data"
                 THEN Adopt(searchComparableSales(sales), {})
                 ELSE Adopt(NoData, {"search"})

\* getComparableProperties: searchSoldProperties and the statistics
SecondaryResponse(o, sold) ==
  /\ kpc = "secondary"
  /\ Arrives(SoldRequest, o)
  /\ CallsUnchanged
  /\ LET r == AdapterResult(o)
     IN  IF r = "throw"
         THEN Raised("secondary", AfterSecondary(comparablesData))
         ELSE /\ comparablesData' = getComparableProperties(IF r = "data" THEN sold ELSE <<>>)
              /\ attachedAVM' = corelogicAVM
              /\ UNCHANGED <<corelogicAVM, scraped, caught>>
              /\ Goto(AfterSecondary(comparablesData'), comparablesData',
                      <<Return("secondary", IF r = "data" THEN {} ELSE {"search"},
                               comparablesData', NoAVM)>>)

\* both scrapers have returned: scrapeComparableProperties returns and
\* runQuickEvaluation merges what it found
Join(got) ==
  LET scrapedData == scrapeComparablesData(got.listings, got.sold)
      anyFound == scrapedData.statistics.total_found > 0
      replaced == comparablesData.statistics.total_found = 0
  IN  /\ scraped' = got
      /\ comparablesData' =
           IF anyFound
           THEN IF replaced THEN scrapedData
                ELSE MergeScrapedData(chVariant, comparablesData, scrapedData)
           ELSE comparablesData
      /\ attachedAVM' =
           IF anyFound
           THEN IF corelogicAVM # NoAVM THEN corelogicAVM
                ELSE IF replaced THEN NoAVM ELSE attachedAVM
           ELSE attachedAVM
      /\ Goto("done", comparablesData', <<Return("scraper", got.failed, scrapedData, NoAVM)>>)

\* one of the two requests of Promise.all([scrapeRealestateListings, scrapeRealestateSold])
ScrapeResponse(req, o, list) ==
  /\ kpc = "scrape"
  /\ Arrives(req, o)
  /\ CallsUnchanged
  /\ LET r == AdapterResult(o)
         got == [scraped EXCEPT ![req.call] = IF r = "data" THEN list ELSE NoScraped[req.call],
                                !.failed = IF r = "data" THEN @ ELSE @ \cup {req.call}]
     IN  IF r = "throw"
         THEN Raised("scraper", "done")
         ELSE /\ UNCHANGED <<corelogicAVM, caught>>
              /\ IF inflight = {req}
                 THEN Join(got)
                 ELSE /\ scraped' = got
                      /\ inflight' = inflight \ {req}
                      /\ UNCHANGED <<kpc, callLog, comparablesData, attachedAVM>>

ListingsResponse(o, listings) == ScrapeResponse(ListingsRequest, o, listings)

ScrapedSoldResponse(o, sold) == ScrapeResponse(ScrapedSoldRequest, o, sold)

(***************************************************************************)
(* The distance term of a comparable's score under the default weights.    *)
(* Distances and thresholds are in metres.  The weights and their comments *)
(* are those of DEFAULT_HISTORIC_SALES_WEIGHTS and HistoricSalesWeights;   *)
(* the classification into bands is the one the specification describes:   *)
(* the bands are tried in order and only the first that matches applies.   *)
(***************************************************************************)
\* the distances scored go up to MaxSteps steps of 50 metres
MaxSteps == 104

Distances == { 50 * k : k \in 0..MaxSteps } \cup { 199, 201, 349, 351, 999, 1001, 4999, 5001 }

\* distance_*_threshold_km and distance_*_bonus / distance_*_penalty
DistanceWeights ==
  [ultra_close |-> [threshold |-> 200, adjustment |-> 40],
   very_close  |-> [threshold |-> 350, adjustment |-> 30],
   close       |-> [threshold |-> 500, adjustment |-> 15],
   moderate    |-> [threshold |-> 1000, adjustment |-> -8],
   far         |-> [threshold |-> 2000, adjustment |-> -15],
   very_far    |-> [threshold |-> 5000, adjustment |-> -25]]

\* ultra-close < 200m, very-close < 350m, close < 500m, moderate < 1km,
\* far < 2km, very-far > 5km: the single matching band
DistanceBand(w, d) ==
  IF d < w.ultra_close.threshold THEN {"ultra_close"}
  ELSE IF d < w.very_close.threshold THEN {"very_close"}
  ELSE IF d < w.close.threshold THEN {"close"}
  ELSE IF d < w.moderate.threshold THEN {"moderate"}
  ELSE IF d < w.far.threshold THEN {"far"}
  ELSE IF d > w.very_far.threshold THEN {"very_far"}
  ELSE {}

BandsIdle ==
  /\ dist = 0
  /\ bpc = "idle"
  /\ applied = {}

\* the distance term of one comparable
ScoreDistance ==
  /\ bpc = "todo"
  /\ bpc' = "scored"
  /\ applied' = DistanceBand(DistanceWeights, dist)
  /\ UNCHANGED <<jobVars, cacheVars, cfgVars, chainVars, estVars, callVars, concVars, keyVars, dist>>

(***************************************************************************)
(* The fallback report's figures.  generateBasicReport (evaluation.ts,     *)
(* part_009) starts from the comparables' median or mean and uses the      *)
(* formula when there is none; calculateEstimatedPrice (in-memory variant) *)
(* always uses its formula.  Counts and sizes are non-negative integers.   *)
(***************************************************************************)
\* largest number of bedrooms of a request
MaxBeds == 2

EstVariants == {"doc", "sql", "mem"}

\* size 0: no size given; property_type "none": no type given
Properties ==
  [beds : 0..MaxBeds, baths : 0..1, carpark : 0..1, size : {0, 1, 100},
   property_type : {"house", "villa", "townhouse", "apartment", "none"}]

\* price_range of the comparables; 0 stands for null
Ranges == { [median |-> 0, avg |-> 0], [median |-> 0, avg |-> 250000],
            [median |-> 10, avg |-> 0], [median |-> 333333, avg |-> 300000] }

NoEstimate == [market |-> 0, conservative |-> 0, premium |-> 0, formula |-> FALSE]

NoProperty == [beds |-> 0, baths |-> 0, carpark |-> 0, size |-> 0, property_type |-> "none"]

\* the formula both functions share, in thousands:
\* 500000 + beds * 100000 + baths * 50000 + carpark * 30000 + size * 3000
BasePriceK(property) ==
  500 + property.beds * 100 + property.baths * 50 + property.carpark * 30 + property.size * 3

\* generateBasicReport: range.median || range.avg || 0, the formula when that is 0
estimatedPrice(property, r) ==
  IF r.median # 0 THEN r.median
  ELSE IF r.avg # 0 THEN r.avg
  ELSE BasePriceK(property) * 1000

\* the switch on property_type, in hundredths
TypeFactor(type) ==
  CASE type = "house" -> 120
    [] type = "villa" -> 110
    [] type = "townhouse" -> 100
    [] type = "apartment" -> 85
    [] OTHER -> 100

\* 0.9 + Math.random() * 0.2, in thousandths: a number from 0.9 up to 1.1
RandomFactors == {900, 1000, 1099}

\* calculateEstimatedPrice: Math.round(basePrice / 10000) * 10000 after the
\* type factor and the random factor
calculateEstimatedPrice(property, rnd) ==
  LET n == BasePriceK(property) * TypeFactor(property.property_type) * rnd
      d == 100 * 1000 * 10
  IN  ((2 * n + d) \div (2 * d)) * 10000

\* rounding down instead of to the nearest
RoundPct_Floor(x, pct) == { (x * pct) \div 100 }

\* Math.round(x * 0.95), Math.round(x * 1.05): the nearest integer to
\* x * pct / 100; at a half the floating-point product decides which of the two
RoundPct(x, pct) ==
  { v \in { (x * pct) \div 100, ((x * pct) \div 100) + 1 } :
      /\ 100 * v - x * pct <= 50
      /\ x * pct - 100 * v <= 50 }

EstIdle ==
  /\ estVariant = "doc"
  /\ propertyData = NoProperty
  /\ range = [median |-> 0, avg |-> 0]
  /\ estimate = NoEstimate
  /\ previous = NoEstimate

\* the three figures of a report with market estimate e
ReportFigures(e, formula) ==
  /\ \E lowerRange \in RoundPct(e, 95), upperRange \in RoundPct(e, 105) :
       estimate' = [market |-> e, conservative |-> lowerRange, premium |-> upperRange,
                    formula |-> formula]
  /\ previous' = estimate
  /\ UNCHANGED <<jobVars, cacheVars, cfgVars, chainVars, callVars, concVars, keyVars, bandVars,
                 estVariant, propertyData, range>>

\* generateBasicReport
BasicReport ==
  /\ estVariant \in {"doc", "sql"}
  /\ ReportFigures(estimatedPrice(propertyData, range), range.median = 0 /\ range.avg = 0)

\* calculateEstimatedPrice and generatePlaceholderReport
PlaceholderReport ==
  /\ estVariant = "mem"
  /\ \E rnd \in RandomFactors :
       ReportFigures(calculateEstimatedPrice(propertyData, rnd), TRUE)

\* nothing but the modelled component is in use
ExtIdle ==
  /\ cfgVariant = "coll" /\ CfgIdle /\ ChainIdle /\ EstIdle /\ CallsIdle /\ ConcIdle /\ KeysIdle
  /\ BandsIdle

Init == JobInit /\ cvariant = "doc" /\ CacheEmpty /\ ExtIdle

Next ==
  \/ \E loc \in Locations : SubmitInvalid(loc)
  \/ \E loc \in Locations : SubmitStored(loc)
  \/ \E loc \in Locations : SubmitMem(loc)
  \/ \E j \in JobIds : TaskGetJob(j)
  \/ \E j \in JobIds : TaskSave(j)
  \/ \E j \in JobIds : TaskThrow(j)
  \/ \E j \in JobIds : TaskFetch(j)
  \/ \E j \in JobIds : TaskGenerate(j)
  \/ \E p \in Pollers, j \in JobIds : PollGet(p, j)
  \/ \E p \in Pollers : PollRespond(p)
  \/ \E j \in JobIds : DeleteExec(j)
  \/ \E p \in Pollers, j \in JobIds : PollMem(p, j)
  \/ \E j \in JobIds : Reap(j)

Spec == Init /\ [][Next]_vars

\* the cache alone: no job is submitted
InitCache == CacheInit /\ variant = "doc" /\ JobEmpty /\ ExtIdle

NextCache ==
  \/ \E w \in Writers : CacheWriteInvalid(w)
  \/ \E w \in Writers, list \in SalesLists : CacheWriteBegin(w, list)
  \/ \E w \in Writers : CacheWriteUpsert(w)
  \/ \E w \in Writers : CacheWriteSelect(w)
  \/ \E w \in Writers : CacheWriteUpdate(w)
  \/ \E w \in Writers : CacheWriteInsert(w)
  \/ \E w \in Writers : CacheWriteDeleteProps(w)
  \/ \E w \in Writers : CacheWriteInsertProp(w)
  \/ CacheReadInvalid
  \/ CacheReadQuery
  \/ CacheReadProps
  \/ Tick

SpecCache == InitCache /\ [][NextCache]_vars

\* the weight configurations alone
InitWeights == cfgVariant \in CfgVariants /\ CfgIdle /\ JobInit /\ variant = "doc"
                 /\ cvariant = "doc" /\ CacheEmpty /\ ChainIdle /\ EstIdle /\ CallsIdle
                 /\ ConcIdle /\ KeysIdle /\ BandsIdle

NextWeights ==
  \/ GetActive
  \/ \E body \in Bodies : Create(body)
  \/ \E id \in CfgIds, body \in Bodies : Update(id, body)
  \/ \E id \in CfgIds : Activate(id)
  \/ \E id \in CfgIds : Delete(id)
  \/ Reset

SpecWeights == InitWeights /\ [][NextWeights]_vars

\* the collection variant with two clients
InitConcurrent ==
  /\ cfgVariant = "coll" /\ CfgIdle /\ ConcIdle
  /\ JobInit /\ variant = "doc" /\ cvariant = "doc" /\ CacheEmpty
  /\ ChainIdle /\ EstIdle /\ CallsIdle /\ KeysIdle /\ BandsIdle

NextConcurrent ==
  \/ \E c \in Clients, op \in ConcOps, id \in CfgIds, body \in Bodies : ConcBegin(c, op, id, body)
  \/ \E c \in Clients : ConcFindActive(c)
  \/ \E c \in Clients : ConcFind(c)
  \/ \E c \in Clients : ConcDeactivate(c)
  \/ \E c \in Clients : ConcInsert(c)
  \/ \E c \in Clients : ConcActivate(c)
  \/ \E c \in Clients : ConcReadBack(c)
  \/ \E c \in Clients : ConcDeleteOne(c)

SpecConcurrent == InitConcurrent /\ [][NextConcurrent]_vars

\* the cache keys alone
InitKeys ==
  /\ cvariant \in CacheVariants /\ CacheEmpty /\ KeysIdle
  /\ JobInit /\ variant = "doc"
  /\ cfgVariant = "coll" /\ CfgIdle /\ ChainIdle /\ EstIdle /\ CallsIdle /\ ConcIdle /\ BandsIdle

NextKeys ==
  \/ \E q \in KeyRequests : KeyWrite(q)
  \/ \E q \in KeyRequests : KeyRead(q)

SpecKeys == InitKeys /\ [][NextKeys]_vars

\* the provider chain alone
InitChain ==
  /\ chVariant \in ChainVariants
  /\ apiKeys \in [corelogic : BOOLEAN, domain : BOOLEAN]
  /\ cpc = "primary"
  /\ comparablesData = NoData
  /\ statsOver = <<>>
  /\ tried = <<>>
  /\ JobInit /\ variant = "doc" /\ cvariant = "doc" /\ CacheEmpty
  /\ cfgVariant = "coll" /\ CfgIdle /\ EstIdle /\ CallsIdle /\ ConcIdle /\ KeysIdle /\ BandsIdle

NextChain ==
  \/ \E sales \in PrimarySales : ChainPrimary(sales)
  \/ \E sold \in SecondarySold : ChainSecondary(sold)
  \/ \E listings \in ScrapedListings, sold \in ScrapedSold : ChainScrape(listings, sold)

SpecChain == InitChain /\ [][NextChain]_vars

\* the provider requests of one job; the cache may hold an entry of the job's key
InitCalls ==
  /\ chVariant \in ChainVariants
  /\ apiKeys \in [corelogic : BOOLEAN, domain : BOOLEAN]
  /\ cpc = "idle"
  /\ comparablesData = NoData
  /\ statsOver = <<>>
  /\ tried = <<>>
  /\ kpc = "start"
  /\ inflight = {}
  /\ silent \in SUBSET Adapters
  /\ corelogicAVM = NoAVM
  /\ attachedAVM = NoAVM
  /\ scraped = NoScraped
  /\ callLog = <<>>
  /\ caught = {}
  /\ JobInit /\ variant = "doc"
  /\ cvariant = "doc" /\ (CacheEmpty \/ CacheHolds(<<SaleA>>))
  /\ cfgVariant = "coll" /\ CfgIdle /\ EstIdle /\ ConcIdle /\ KeysIdle /\ BandsIdle

NextCalls ==
  \/ CallsStart
  \/ \E o \in Outcomes : TokenResponse(o)
  \/ \E o \in Outcomes, avm \in Valuations : AvmResponse(o, avm)
  \/ \E o \in Outcomes, sales \in SalesFound : SearchResponse(o, sales)
  \/ \E o \in Outcomes, sold \in SoldFound : SecondaryResponse(o, sold)
  \/ \E o \in Outcomes, listings \in ListingsScraped : ListingsResponse(o, listings)
  \/ \E o \in Outcomes, sold \in SoldScraped : ScrapedSoldResponse(o, sold)

SpecCalls == InitCalls /\ [][NextCalls]_vars

\* the event loop runs every callback that is ready, the abort timer's included
SpecCallsFair == SpecCalls /\ WF_vars(NextCalls)

\* the fallback report alone
InitEstimate ==
  /\ estVariant \in EstVariants
  /\ propertyData \in Properties
  /\ range \in (IF estVariant = "mem" THEN { [median |-> 0, avg |-> 0] } ELSE Ranges)
  /\ estimate = NoEstimate
  /\ previous = NoEstimate
  /\ JobInit /\ variant = "doc" /\ cvariant = "doc" /\ CacheEmpty
  /\ cfgVariant = "coll" /\ CfgIdle /\ ChainIdle /\ CallsIdle /\ ConcIdle /\ KeysIdle /\ BandsIdle

NextEstimate ==
  \/ BasicReport
  \/ PlaceholderReport

SpecEstimate == InitEstimate /\ [][NextEstimate]_vars

\* the distance term alone
InitBands ==
  /\ dist \in Distances
  /\ bpc = "todo"
  /\ applied = {}
  /\ JobInit /\ variant = "doc" /\ cvariant = "doc" /\ CacheEmpty
  /\ cfgVariant = "coll" /\ CfgIdle /\ ChainIdle /\ EstIdle /\ CallsIdle /\ ConcIdle /\ KeysIdle

NextBands == ScoreDistance

SpecBands == InitBands /\ [][NextBands]_vars

(***************************************************************************)
(* Properties of the job orchestrator.                                     *)
(***************************************************************************)
\* the two courses a job's status can take
StatusChains == { <<"queued", "in_progress", "completed">>,
                  <<"queued", "in_progress", "failed">> }

IsPrefix(s, t) == Len(s) <= Len(t) /\ \A i \in 1..Len(s) : s[i] = t[i]

Rank(st) == CASE st = "queued" -> 1 [] st = "in_progress" -> 2 [] OTHER -> 3

Range(s) == { s[i] : i \in 1..Len(s) }

\* C2: polls of a pending job carry status and stage only; the result or the
\* error of a job is carried by exactly one poll response; once it has been
\* carried and the handlers have finished, the record is gone from the store.
C2_DeliveredOnce ==
  /\ resp.code = "ok" /\ resp.status \in {"queued", "in_progress"}
       => resp.result = "none" /\ resp.error = "none"
  /\ \A j \in JobIds : delivered[j] <= 1
  /\ \A j \in JobIds :
       delivered[j] >= 1 /\ j \notin delq /\ (\A p \in Pollers : ppc[p] = "idle")
         => store[j] = Absent

\* C3: every accepted job gets the stored status completed or failed; once
\* its background task has run to its end nothing else will write the status,
\* so by then the store must have held completed or failed.
C3_TaskEndsStored ==
  \A j \in JobIds : tpc[j] = "done" => Range(storeLog[j]) \cap Terminal # {}

\* the engine outcomes that make the narrative engine unavailable
EngineUnavailable == {"nokey", "error"}

\* the report runQuickEvaluation has just produced for job j
Report(j) == IF variant = "sql" THEN jobResults[j] ELSE job[j].result

C5_FailureRecorded ==
  \A j \in JobIds :
    threw[j] =>
      /\ store[j].status = "failed" => store[j].error = "msg"
      /\ resp.code = "ok" /\ resp.id = j /\ resp.status = "failed" => resp.error = "msg"

\* C6: a submit without location creates no record and starts no task; a
\* submit with a location answers with a job whose record was stored, with
\* status queued, before its task started.
C6_SubmitContract ==
  /\ lastSubmit.code = "invalid" /\ nextId = 0
       => \A j \in JobIds : store[j] = Absent /\ tpc[j] = "none"
  /\ \A j \in JobIds :
       tpc[j] # "none" => storeLog[j] # <<>> /\ storeLog[j][1] = "queued"

(***************************************************************************)
(* Properties of the suburb sales cache.                                   *)
(***************************************************************************)
\* what a read answers for the entry the write wr left, as the variant stores it
StoredSales(v, wr) ==
  ReadSales(v, WrittenRow(v, wr.list, wr.at), IF v = "relB" THEN StoredProps(wr.list) ELSE <<>>)

C8_ValidIff ==
  rresp.code = "ok" =>
    (rresp.cached <=> (rresp.exists /\ rresp.age < TTL(cvariant)))

\* C9: a read within the time to live of a write that completed, and ran
\* alone, returns exactly the list that was written, its length as total and
\* the write's time as cached_at.
C9_ReadReturnsWritten ==
  rresp.code = "ok" /\ rresp.expect # NoWrite /\ rresp.age < TTL(cvariant) =>
    /\ rresp.cached
    /\ rresp.sales = rresp.expect.list
    /\ rresp.total = Len(rresp.expect.list)
    /\ rresp.cached_at = rresp.expect.at

\* C10: when two writes of different lists ran at the same time and both have
\* finished, both were answered without error and a read returns exactly one
\* of the two lists.
C10_OneOfTheTwo ==
  (\A w \in Writers : wpc[w] = "done" /\ woverlap[w]) /\ wlist["w1"] # wlist["w2"] =>
    /\ \A w \in Writers : wresp[w] = "ok"
    /\ \A sales \in ReadSales(cvariant, row, props) : \E w \in Writers : sales = wlist[w]

\* C16: every poll is answered, with the record or with not-found; an answer
\* that reports a terminal status for a job whose result or error has been
\* delivered carries the payload again; an answer with status completed is
\* never without the result.
C16_RepeatPoll ==
  /\ resp.code \in {"none", "ok", "notfound"}
  /\ resp.code = "ok" /\ resp.status = "completed" => resp.result # "none"
  /\ resp.code = "ok" /\ delivered[resp.id] >= 1 /\ resp.status \in {"completed", "failed"} =>
       resp.result # "none" \/ resp.error # "none"

\* C29: a read and a write whose tuples differ never have the same cache
\* key; a read that finds an entry returns the sales written for its own
\* tuple and reports the suburb and the state that were written.
C29_KeysSeparateTuples ==
  /\ \A e \in keyed : e.sales # keyResp.asked => e.cache_key # keyResp.cache_key
  /\ keyResp.cached =>
       /\ keyResp.sales = keyResp.asked
       /\ keyResp.suburb = keyResp.sales.suburb
       /\ keyResp.state = keyResp.sales.state

(***************************************************************************)
(* Properties of the weight configurations.                                *)
(***************************************************************************)
Actives(configs) == { c \in configs : c.is_active }

\* C11: once a configuration is stored, after every request exactly one
\* stored configuration has is_active = true.
C11_ExactlyOneActive ==
  collection # {} => Cardinality(Actives(collection)) = 1

\* C12: a delete request that names the active configuration is answered
\* with an error and the stored configurations are as they were before it.
C12_DeleteActiveRefused ==
  cfgResp.op = "delete" /\ (\E c \in Actives(cfgBefore) : c.id = cfgResp.id) =>
    /\ cfgResp.code = 400
    /\ collection = cfgBefore

C12_Witness ==
  /\ cfgResp.op = "delete"
  /\ \E c \in Actives(cfgBefore) : c.id = cfgResp.id
  /\ Cardinality(cfgBefore) > 1
  /\ cfgResp.code = 400

\* C13: activate with the id of a stored configuration succeeds and leaves
\* that configuration the one get-active returns; activate with an id that
\* names no stored configuration answers not-found and changes nothing.
C13_ActivateById ==
  cfgResp.op = "activate" =>
    IF \E c \in cfgBefore : c.id = cfgResp.id
    THEN /\ cfgResp.code = 200
         /\ \A c \in Actives(collection) : c.id = cfgResp.id
         /\ \E c \in Actives(collection) : c.id = cfgResp.id
    ELSE /\ cfgResp.code = 404
         /\ collection = cfgBefore

\* the stage of a record is the one its status allows
StageAgrees(rec) ==
  /\ rec.status = "queued" <=> rec.stage = "queued"
  /\ rec.status = "in_progress" <=> rec.stage \in {"fetching_data", "generating_evaluation"}
  /\ rec.status = "completed" <=> rec.stage = "completed"
  /\ rec.status = "failed" <=> rec.stage = "failed"

\* a record's stage does not go from generating_evaluation to fetching_data
NoStageBack(before, after) ==
  before.stage = "generating_evaluation" => after.stage # "fetching_data"

\* C27: in every reachable state the stage of a job agrees with its status,
\* in the stored record, in the job object of the background task and in
\* the poll response (queued iff queued, in_progress iff fetching_data or
\* generating_evaluation, completed iff completed, failed iff failed), and
\* the stage never goes back from generating_evaluation to fetching_data.
C27_StageAgreesWithStatus ==
  /\ [](/\ \A j \in JobIds : StageAgrees(store[j]) /\ StageAgrees(job[j])
        /\ resp.code = "ok" => StageAgrees(resp))
  /\ [][\A j \in JobIds : NoStageBack(store[j], store'[j]) /\ NoStageBack(job[j], job'[j])]_vars

\* a job fails while it generates the evaluation
C27_Witness ==
  \E j \in JobIds :
    /\ store[j].status = "in_progress" /\ store[j].stage = "generating_evaluation"
    /\ job[j].status = "failed" /\ job[j].stage = "failed"

\* no request of a client is in progress
Quiet == \A c \in Clients : hpc[c] = "idle"

\* C28: whenever every request of the concurrent clients (get-active,
\* create, activate, delete, reset) has completed and a configuration was
\* ever created, exactly one stored configuration is active.
C28_OneActiveWhenQuiet ==
  Quiet /\ nextUuid > 0 => Cardinality(Actives(collection)) = 1

(***************************************************************************)
(* Properties of the provider chain and its statistics.                    *)
(***************************************************************************)
\* the element at zero-based index k of the prices in ascending order: at
\* most k prices are smaller, more than k are not greater
KthSmallest(prices, k) ==
  CHOOSE v \in Range(prices) :
    /\ Cardinality({ i \in 1..Len(prices) : prices[i] < v }) <= k
    /\ Cardinality({ i \in 1..Len(prices) : prices[i] <= v }) > k

MedianOfWorkingSet == comparablesData.statistics.price_range.median

\* C14: whenever statistics are computed from a non-empty list of n prices,
\* by an adapter or by the merge step, the median is the element at
\* zero-based index floor(n/2) of the prices in ascending order.
C14_MedianIndex ==
  /\ statsOver # <<>> =>
       MedianOfWorkingSet = KthSmallest(statsOver, Len(statsOver) \div 2)
  /\ \A i \in 1..Len(tried) :
       tried[i].over # <<>> =>
         tried[i].returned.statistics.price_range.median
           = KthSmallest(tried[i].over, Len(tried[i].over) \div 2)

\* the merge step has computed the median of three prices
C14_Witness ==
  /\ cpc = "done" /\ chVariant = "doc"
  /\ Len(tried) = 2 /\ tried[1].adapter = "primary" /\ tried[1].over # <<>>
  /\ statsOver = MergedPrices(comparablesData)
  /\ SortAsc(statsOver) = <<150, 200, 300>>
  /\ MedianOfWorkingSet = 200

EvenCount == statsOver # <<>> /\ Len(statsOver) % 2 = 0

\* C15, as amended: for an even number n of prices the median is the upper
\* of the two middle elements of the prices in ascending order; prices
\* 100, 200, 300, 400 give 300.
C15_EvenUpperMiddle ==
  EvenCount =>
    /\ MedianOfWorkingSet = KthSmallest(statsOver, Len(statsOver) \div 2)
    /\ MedianOfWorkingSet >= KthSmallest(statsOver, (Len(statsOver) \div 2) - 1)
    /\ SortAsc(statsOver) = <<100, 200, 300, 400>> => MedianOfWorkingSet = 300

C15_Witness ==
  /\ Range(statsOver) = {100, 200, 300, 400} /\ Len(statsOver) = 4
  /\ statsOver # <<100, 200, 300, 400>>
  /\ MedianOfWorkingSet = 300

\* C15, as stated: for an even number n of prices the median is the lower of
\* the two middle elements; prices 100, 200, 300, 400 give 200.
C15_EvenLowerMiddle ==
  EvenCount =>
    MedianOfWorkingSet = KthSmallest(statsOver, (Len(statsOver) \div 2) - 1)

\* C19: when the chain has ended, the statistics of the working set the
\* result returns are those of exactly the priced comparables in its sold
\* and listing lists: their number, smallest, largest, rounded mean, median.
C19_StatsOfReturned ==
  cpc = "done" =>
    LET ps == MergedPrices(comparablesData)
        st == comparablesData.statistics
    IN  /\ st.total_found = Len(ps)
        /\ ps # <<>> =>
             /\ st.price_range.min = KthSmallest(ps, 0)
             /\ st.price_range.max = KthSmallest(ps, Len(ps) - 1)
             /\ st.price_range.avg = RoundDiv(Sum(ps), Len(ps))
             /\ st.price_range.median = KthSmallest(ps, Len(ps) \div 2)

\* C22: no two comparables of the working set have the same address and the
\* same price.
C22_NoDuplicatePairs ==
  LET all == comparablesData.comparable_sold \o comparablesData.comparable_listings
  IN  \A i, k \in 1..Len(all) :
        i # k => <<all[i].address, all[i].price>> # <<all[k].address, all[k].price>>

\* the comparables of a working set
Elements(cd) == Range(cd.comparable_sold) \cup Range(cd.comparable_listings)

\* the adapter that comes after one in the chain, of those that can be used
NextUsable(adapter) == IF adapter = "primary" /\ apiKeys.domain THEN "secondary" ELSE "scraper"

\* C20: when the chain has ended, after every adapter that left fewer than 3
\* priced comparables in the working set the next usable adapter was called,
\* all it returned is in the working set and nothing that was there is lost.
C20_NextAdapterMerged ==
  cpc = "done" =>
    \A i \in 1..Len(tried) :
      tried[i].adapter # "scraper" /\ NumPriced(tried[i].after) < 3 =>
        /\ i < Len(tried)
        /\ tried[i + 1].adapter = NextUsable(tried[i].adapter)
        /\ Elements(tried[i + 1].returned) \subseteq Elements(tried[i + 1].after)
        /\ Elements(tried[i].after) \subseteq Elements(tried[i + 1].after)

(***************************************************************************)
(* Properties of the provider requests of a job.                           *)
(***************************************************************************)
AdapterRank(adapter) ==
  CASE adapter = "primary" -> 1 [] adapter = "secondary" -> 2 [] adapter = "scraper" -> 3

IsCall(i) == callLog[i].ev = "call"

IsReturn(i) == callLog[i].ev = "return"

\* C21: the adapters are called one at a time in the order primary,
\* secondary, tertiary: requests of two adapters are never in flight together,
\* an adapter is called only after every earlier call has returned and never
\* after an adapter of lower priority was called, and no adapter is called
\* while the working set holds 3 or more priced comparables.
C21_OneAtATimeInOrder ==
  /\ Cardinality({ req.adapter : req \in inflight }) <= 1
  /\ \A k \in 1..Len(callLog) :
       IsCall(k) =>
         /\ callLog[k].priced < 3
         /\ \A i \in 1..(k - 1) :
              IsCall(i) =>
                /\ AdapterRank(callLog[i].adapter) <= AdapterRank(callLog[k].adapter)
                /\ \E m \in (i + 1)..(k - 1) :
                     IsReturn(m) /\ callLog[m].adapter = callLog[i].adapter

\* all three adapters were called, the scrapers on a working set of one
C21_Witness ==
  /\ kpc = "done"
  /\ { callLog[i].adapter : i \in 1..Len(callLog) } = Adapters
  /\ \E i \in 1..Len(callLog) : IsCall(i) /\ callLog[i].adapter = "scraper" /\ callLog[i].priced = 1

\* the cache holds an entry of the job's key that has not expired
CacheHit == row # NoRow /\ Valid(row.cached_at, CutoffDate(clock, cvariant))

\* C23: while the cache holds a valid entry of the job's key, the job calls
\* no adapter.
C23_CacheHitSkipsAdapters ==
  CacheHit => \A i \in 1..Len(callLog) : ~IsCall(i)

\* C24: every provider request of a job is abandoned by a timeout, so that
\* also with providers that never respond the job gets past its provider
\* requests.
C24_JobContinues == <>(kpc = "done")

\* C25: no adapter call raises to runQuickEvaluation, and an adapter returns
\* its empty result (no valuation) when a request of it ends with a network
\* error, a response that is not 2xx or a body that does not parse; the job
\* then goes on to its next request or to the end of the provider chain.
C25_FailureGivesEmpty ==
  /\ caught = {}
  /\ inflight = {} => kpc \in {"start", "done"}
  /\ \A i \in 1..Len(callLog) :
       IsReturn(i) /\ callLog[i].failed # {} =>
         /\ callLog[i].avm = NoAVM
         /\ callLog[i].adapter # "scraper" => callLog[i].returned = NoData
         /\ "listings" \in callLog[i].failed => callLog[i].returned.comparable_listings = <<>>
         /\ "sold" \in callLog[i].failed => callLog[i].returned.comparable_sold = <<>>

\* requests of all three adapters failed and the chain has ended
C25_Witness ==
  /\ kpc = "done"
  /\ { callLog[i].adapter : i \in { k \in 1..Len(callLog) : callLog[k].failed # {} } } = Adapters
  /\ \E i \in 1..Len(callLog) : callLog[i].failed = {"avm"}

\* C30: when the provider chain has ended and the primary provider gave a
\* valuation, comparables_data.corelogic_avm of the result is that valuation.
C30_AvmCarried ==
  kpc = "done" /\ corelogicAVM # NoAVM => attachedAVM = corelogicAVM

(***************************************************************************)
(* Properties of the distance term.                                        *)
(***************************************************************************)
\* C26: under the default weights the adjustment of exactly one distance
\* band is applied to the score of a comparable, whatever its distance:
\* never two bands and never none.
C26_ExactlyOneBand ==
  bpc = "scored" => Cardinality(applied) = 1

(***************************************************************************)
(* Properties of the fallback report's figures.                            *)
(***************************************************************************)
\* (500,000 + the increments) times the type factor, to the nearest 10,000
FormulaEstimate(property) ==
  LET n == BasePriceK(property) * TypeFactor(property.property_type)
  IN  ((2 * n + 1000) \div 2000) * 10000

\* C17: an estimate made with the formula is (500,000 + the increments per
\* bedroom, bathroom, car space and area unit) times the type factor, rounded
\* to the nearest 10,000; it is a multiple of 10,000, and the same as the
\* estimate made before for the same property.
C17_FormulaEstimate ==
  estimate # NoEstimate /\ estimate.formula =>
    /\ estimate.market = FormulaEstimate(propertyData)
    /\ estimate.market % 10000 = 0
    /\ previous # NoEstimate => estimate.market = previous.market

TypeOK ==
  /\ variant \in Variants
  /\ nextId \in 0..MaxJobs
  /\ faults \in 0..MaxFaults
  /\ \A j \in JobIds : store[j].status \in {"absent", "queued", "in_progress", "completed", "failed"}
====
